---- MODULE Spec2Model ----
(***************************************************************************)
(* A model of the JobSeeker recommendation pipeline                        *)
(* (src/job_recommender): title generation, URL resolution with the        *)
(* search-URL cache, detail extraction with the job-detail cache.          *)
(*                                                                         *)
(* Strings the code inspects (descriptions, titles, locations) are         *)
(* sequences of one-character strings, so that strip/lower/split/join are  *)
(* computed as Python computes them.  The external collaborators (the      *)
(* chat model, the Seek site) are nondeterministic inputs of the actions.  *)
(***************************************************************************)
EXTENDS Integers, Sequences, FiniteSets, TLC

(***************************************************************************)
(* Bounds of the model.                                                    *)
(***************************************************************************)
\* top-level calls made on one JobRecommender object
MaxCalls == 2
\* distinct posting URLs the Seek site can show
NumUrls == 2
\* longest description tried
MaxDescLen == 2
\* longest job_titles list a model response carries
MaxTitles == 3
\* longest URL list passed to get_job_details_by_urls
MaxBatch == 2
\* file-system faults that strike while the process runs
MaxFaults == 1
\* processes started after the first one has ended
MaxRestarts == 1
\* longest location text tried
MaxLocLen == 6
\* most components of a vector passed to the cosine, and its largest component
MaxDim == 2
MaxCoord == 4
\* largest page cap passed to a direct call of get_job_urls
MaxPageCap == 3

(***************************************************************************)
(* Python values.                                                          *)
(***************************************************************************)
None == "None"

Urls == 1..NumUrls

\* all sequences over S of length at most n
RECURSIVE SeqsUpTo(_, _)
SeqsUpTo(S, n) ==
    IF n = 0 THEN {<<>>}
    ELSE LET shorter == SeqsUpTo(S, n - 1)
         IN  shorter \cup {Append(s, x) : s \in {t \in shorter : Len(t) = n - 1}, x \in S}

(***************************************************************************)
(* str methods, on sequences of characters.                                *)
(***************************************************************************)
IsSpace(c) == c = " "

\* str.lower() on one character
LowerChar(c) ==
    CASE c = "A" -> "a"
      [] c = "D" -> "d"
      [] c = "N" -> "n"
      [] c = "O" -> "o"
      [] c = "R" -> "r"
      [] OTHER -> c

\* str.lower()
lower(s) == [i \in 1..Len(s) |-> LowerChar(s[i])]

RECURSIVE lstrip(_)
lstrip(s) == IF s # <<>> /\ IsSpace(Head(s)) THEN lstrip(Tail(s)) ELSE s

RECURSIVE rstrip(_)
rstrip(s) ==
    IF s # <<>> /\ IsSpace(s[Len(s)]) THEN rstrip(SubSeq(s, 1, Len(s) - 1)) ELSE s

\* str.strip()
strip(s) == rstrip(lstrip(s))

\* str.split() without a separator: the words between runs of whitespace
RECURSIVE SplitFrom(_, _, _)
SplitFrom(s, word, acc) ==
    IF s = <<>> THEN (IF word = <<>> THEN acc ELSE Append(acc, word))
    ELSE IF IsSpace(Head(s))
         THEN SplitFrom(Tail(s), <<>>, IF word = <<>> THEN acc ELSE Append(acc, word))
         ELSE SplitFrom(Tail(s), Append(word, Head(s)), acc)

split(s) == SplitFrom(s, <<>>, <<>>)

\* sep.join(words)
RECURSIVE join(_, _)
join(sep, words) ==
    IF words = <<>> THEN <<>>
    ELSE IF Len(words) = 1 THEN words[1]
    ELSE words[1] \o sep \o join(sep, Tail(words))

\* s.startswith(sub)
StartsWith(s, sub) == Len(s) >= Len(sub) /\ SubSeq(s, 1, Len(sub)) = sub

\* sub in s
RECURSIVE contains(_, _)
contains(s, sub) ==
    IF StartsWith(s, sub) THEN TRUE
    ELSE IF s = <<>> THEN FALSE
    ELSE contains(Tail(s), sub)

\* s.split(sep)[0]: the part of s before the first occurrence of sep
RECURSIVE SplitFirst(_, _)
SplitFirst(s, sep) ==
    IF s = <<>> \/ StartsWith(s, sep) THEN <<>>
    ELSE <<Head(s)>> \o SplitFirst(Tail(s), sep)

\* bool(s) of a str, list or dict given as a sequence
Truthy(s) == s # <<>>

(***************************************************************************)
(* utils.py: the JSON files.  A file is absent or holds a dict; a dict is  *)
(* a function whose domain is its set of keys.  fault is what the file     *)
(* system does to the next open() of the file: nothing ("none"), the read  *)
(* fails or the text is no JSON ("read"), open(path, "w") is refused       *)
(* ("write_denied"), or the dump breaks off after the file was truncated   *)
(* ("write_torn").                                                         *)
(***************************************************************************)
EmptyDict == <<>>

AbsentFile == [exists |-> FALSE, data |-> EmptyDict, fault |-> "none"]

\* d[k] = v
DictSet(d, k, v) == [x \in (DOMAIN d) \cup {k} |-> IF x = k THEN v ELSE d[x]]

\* save_json(path, data): the file is created or overwritten
save_json(data) == [exists |-> TRUE, data |-> data, fault |-> "none"]

\* read_json(path) raises when the file does not exist, cannot be read or
\* does not hold JSON
read_json_raises(file) == ~file.exists \/ file.fault = "read"

\* save_json(path, data) raises when the file cannot be opened for writing
\* or the dump fails
save_json_raises(file) == file.fault \in {"write_denied", "write_torn"}

\* the file a save_json that raised leaves: open(path, "w") has truncated it
\* unless the open itself was refused
FailedSave(file) ==
    IF file.fault = "write_torn"
    THEN [exists |-> TRUE, data |-> EmptyDict, fault |-> "read"]
    ELSE file

(***************************************************************************)
(* JobTitleRecord and the Title Generator.                                 *)
(***************************************************************************)
\* job titles the chat model proposes
TitleSet == { <<"D", " ", "a">>, <<"c">> }

\* locations the chat model proposes: 'None', 'x', 'x or y', ' '
LocSet == { <<"N", "o", "n", "e">>, <<"x">>,
            <<"x", " ", "o", "r", " ", "y">>, <<" ">> }

NoRecord == [job_titles |-> <<>>, location |-> <<>>]

\* what the chat model can answer to the title prompt: the call raises, the
\* text is no JSON of the schema's shape, or it carries some list of titles
TitleResponses ==
    { [kind |-> "error", job_titles |-> <<>>, location |-> <<>>],
      [kind |-> "unparsable", job_titles |-> <<>>, location |-> <<>>] }
    \cup { [kind |-> "json", job_titles |-> t, location |-> l] :
             t \in SeqsUpTo(TitleSet, MaxTitles), l \in LocSet }

\* a parser that cuts a longer list to its first two titles
JobTitleRecord_parse_truncating(response) ==
    IF response.kind = "json" /\ Len(response.job_titles) >= 2
    THEN [ok |-> TRUE,
          record |-> [job_titles |-> SubSeq(response.job_titles, 1, 2),
                      location |-> response.location]]
    ELSE [ok |-> FALSE, record |-> NoRecord]

\* PydanticOutputParser(JobTitleRecord).parse: min_items=2, max_items=2
JobTitleRecord_parse(response) ==
    IF response.kind = "json"
       /\ Len(response.job_titles) >= 2 /\ Len(response.job_titles) <= 2
    THEN [ok |-> TRUE,
          record |-> [job_titles |-> response.job_titles, location |-> response.location]]
    ELSE [ok |-> FALSE, record |-> NoRecord]

\* descriptions a caller passes
Descriptions == SeqsUpTo({" ", "d"}, MaxDescLen)

\* recommend_titles testing `not description` only
recommend_titles_unstripped(description, response) ==
    IF ~Truthy(description)
    THEN [status |-> "raised", error |-> "ValueError", value |-> NoRecord, llm_calls |-> 0]
    ELSE IF response.kind = "error"
    THEN [status |-> "raised", error |-> "Exception", value |-> NoRecord, llm_calls |-> 1]
    ELSE IF response.kind = "json" /\ Len(response.job_titles) = 2
    THEN [status |-> "returned", error |-> None,
          value |-> [job_titles |-> response.job_titles, location |-> response.location],
          llm_calls |-> 1]
    ELSE [status |-> "raised", error |-> "Exception", value |-> NoRecord, llm_calls |-> 1]

\* JobRecommender.recommend_titles(description), given the model's answer.
\* llm_calls counts self.llm.invoke.
recommend_titles(description, response) ==
    IF ~Truthy(description) \/ ~Truthy(strip(description))
    THEN [status |-> "raised", error |-> "ValueError", value |-> NoRecord, llm_calls |-> 0]
    ELSE IF response.kind = "error"
    THEN [status |-> "raised", error |-> "Exception", value |-> NoRecord, llm_calls |-> 1]
    ELSE LET parsed == JobTitleRecord_parse(response)
         IN  IF parsed.ok
             THEN [status |-> "returned", error |-> None, value |-> parsed.record,
                   llm_calls |-> 1]
             ELSE [status |-> "raised", error |-> "Exception", value |-> NoRecord,
                   llm_calls |-> 1]

(***************************************************************************)
(* SeekJobScraper.get_job_urls: the paginated search of the Seek site.     *)
(***************************************************************************)
\* the page cap get_job_urls_by_recommd passes
max_pages == 2

\* job links one result page shows (_extract_job_urls returns list(set(...)):
\* no URL twice on a page)
PageLinks == {<<>>} \cup { <<u>> : u \in Urls }

\* what one page request yields: _make_request gives no response (ok = FALSE),
\* or a page with its job links and with or without a link to a next page
PageOutcomes ==
    { [ok |-> FALSE, links |-> <<>>, next |-> FALSE] }
    \cup { [ok |-> TRUE, links |-> l, next |-> n] : l \in PageLinks, n \in BOOLEAN }

\* a page at which get_job_urls stops
StopsAt(page) == ~page.ok \/ ~Truthy(page.links) \/ ~page.next

NoPage == [ok |-> FALSE, links |-> <<>>, next |-> FALSE]

\* the site as one search sees it: the outcome of each page it may request
\* (pages behind the one the search stops at are never requested: NoPage)
SiteViews ==
    { v \in [1..max_pages -> PageOutcomes] :
        \A i \in 1..max_pages, j \in 1..max_pages :
            (i < j /\ StopsAt(v[i])) => v[j] = NoPage }

\* the site as a call sees it that finds its list in the cache
NoSite == [i \in 1..max_pages |-> NoPage]

\* the while loop of get_job_urls from page current_page on
RECURSIVE ScrapeFrom(_, _, _, _)
ScrapeFrom(pages, current_page, cap, job_urls) ==
    IF current_page > cap
    THEN [urls |-> job_urls, requests |-> current_page - 1, raised |-> FALSE]
    ELSE LET page == pages[current_page]
         IN  IF ~page.ok
             THEN [urls |-> job_urls, requests |-> current_page, raised |-> FALSE]
             ELSE IF ~Truthy(page.links)
             THEN [urls |-> job_urls, requests |-> current_page, raised |-> FALSE]
             ELSE IF ~page.next
             THEN [urls |-> job_urls \o page.links, requests |-> current_page,
                   raised |-> FALSE]
             ELSE ScrapeFrom(pages, current_page + 1, cap, job_urls \o page.links)

\* get_job_urls letting a failed first request escape as an exception
get_job_urls_raising(pages, cap) ==
    IF ~pages[1].ok THEN [urls |-> <<>>, requests |-> 1, raised |-> TRUE]
    ELSE ScrapeFrom(pages, 1, cap, <<>>)

\* get_job_urls looking at the first result page only
get_job_urls_first_page(pages, cap) == ScrapeFrom(pages, 1, 1, <<>>)

\* SeekJobScraper.get_job_urls(url, max_pages), given the site
get_job_urls(pages, cap) == ScrapeFrom(pages, 1, cap, <<>>)

(***************************************************************************)
(* The search-URL cache and the URL Resolver.                              *)
(***************************************************************************)
\* JobRecommender.search_url_database(search_url)
search_url_database(file, search_url) ==
    IF read_json_raises(file) THEN <<>>
    ELSE IF search_url \in DOMAIN file.data THEN file.data[search_url]
    ELSE <<>>

\* JobRecommender.save_job_urls_to_database(search_url, data): the file after it
save_job_urls_to_database(file, search_url, data) ==
    IF read_json_raises(file) THEN file
    ELSE IF save_json_raises(file) THEN FailedSave(file)
    ELSE save_json(DictSet(file.data, search_url, data))

\* the search URL get_job_urls_by_recommds builds for one title; location_none
\* is the `location = None` of a 'none' location
SearchUrlOf(job_title, location, location_none) ==
    LET title_clean == join(<<"-">>, split(lower(job_title)))
        search_url  == <<"https://www.seek.com.au/">> \o title_clean \o <<"-jobs">>
    IN  IF ~location_none /\ Truthy(location) /\ Truthy(strip(location))
        THEN LET location_clean ==
                    IF contains(lower(location), <<" ", "o", "r", " ">>)
                    THEN join(<<"-">>,
                              split(lower(strip(SplitFirst(location, <<" ", "o", "r", " ">>)))))
                    ELSE join(<<"-">>, split(lower(location)))
             IN  IF Truthy(location_clean)
                 THEN search_url \o <<"/in-">> \o location_clean
                 ELSE search_url
        ELSE search_url

\* str(location).lower() == 'none'
LocationIsNone(location) == lower(location) = <<"n", "o", "n", "e">>

\* JobRecommender.get_job_urls_by_recommd(search_url), given the site: the
\* list returned, the cache file after the call, and the searches made
get_job_urls_by_recommd(file, search_url, pages) ==
    LET cached == search_url_database(file, search_url)
    IN  IF Truthy(cached)
        THEN [status |-> "returned", urls |-> cached, file |-> file, searches |-> 0,
              requests |-> 0, writes |-> 0, first_page_failed |-> FALSE]
        ELSE LET scraped == get_job_urls(pages, max_pages)
             IN  IF scraped.raised
                 THEN [status |-> "raised", urls |-> <<>>, file |-> file, searches |-> 1,
                       requests |-> scraped.requests, writes |-> 0,
                       first_page_failed |-> ~pages[1].ok]
                 ELSE [status |-> "returned", urls |-> scraped.urls,
                       file |-> save_job_urls_to_database(file, search_url, scraped.urls),
                       searches |-> 1, requests |-> scraped.requests,
                       writes |-> IF read_json_raises(file) \/ save_json_raises(file)
                                  THEN 0 ELSE 1,
                       first_page_failed |-> ~pages[1].ok]

(***************************************************************************)
(* JobDescriptionRecord and JobDescriptionAnalyzer.                        *)
(***************************************************************************)
\* a date-typed field: None, a datetime.date, or (read back from JSON) a str
NoDate == [type |-> "NoneType", v |-> None]
DateOf(iso) == [type |-> "date", v |-> iso]

\* JobDescriptionRecord(): every field at its default
JobDescriptionRecord_default ==
    [ job_title |-> None, seniority_level |-> "Unknown", company_name |-> None,
      company_description |-> None, is_remote |-> None, employment_type |-> None,
      posting_date |-> NoDate, close_date |-> NoDate,
      skills_mandatory |-> <<>>, skills_nice_to_have |-> <<>>, soft_skills |-> <<>>,
      domain_knowledge |-> <<>>, responsibilities |-> <<>>,
      experience_years_min |-> None, experience_years_max |-> None,
      experience_industries |-> <<>>, education_requirements |-> None,
      risk_flags |-> <<>>, keywords |-> <<>> ]

\* records the chat model extracts: nothing found, a filled record, and the
\* 'Unknown' titles the field descriptions ask for when the page says nothing
DetailRecords ==
    { JobDescriptionRecord_default,
      [JobDescriptionRecord_default EXCEPT
          !.job_title = "Data Analyst", !.seniority_level = "Senior",
          !.posting_date = DateOf("2025-01-01"), !.skills_mandatory = <<"SQL">>],
      [JobDescriptionRecord_default EXCEPT
          !.job_title = "Unknown", !.company_description = "Unknown"] }

\* what the extraction chain can yield: the completion call raises, the answer
\* does not parse into the schema, or it parses into a record
DetailResponses ==
    { [kind |-> "error", record |-> JobDescriptionRecord_default],
      [kind |-> "unparsable", record |-> JobDescriptionRecord_default] }
    \cup { [kind |-> "json", record |-> r] : r \in DetailRecords }

\* parse_job_html_to_json without its except clause
parse_job_html_to_json_raising(html_content, response) ==
    IF response.kind = "json"
    THEN [status |-> "returned", detail |-> response.record, llm_calls |-> 1]
    ELSE [status |-> "raised", detail |-> JobDescriptionRecord_default, llm_calls |-> 1]

\* JobDescriptionAnalyzer.parse_job_html_to_json(html_content), given the
\* chain's outcome; html_content may be None, the chain is invoked all the same
parse_job_html_to_json(html_content, response) ==
    IF response.kind = "json"
    THEN [status |-> "returned", detail |-> response.record, llm_calls |-> 1]
    ELSE [status |-> "returned", detail |-> JobDescriptionRecord_default, llm_calls |-> 1]

\* DateEncoder: a date is written as its ISO string, and read back as a str
DateToJson(d) == IF d.type = "date" THEN [type |-> "str", v |-> d.v] ELSE d

\* a detail dict after json.dump and json.load
DetailToJson(detail) ==
    [detail EXCEPT !.posting_date = DateToJson(@), !.close_date = DateToJson(@)]

(***************************************************************************)
(* SeekJobScraper.get_job_content and the Detail Extractor.                *)
(***************************************************************************)
\* what get_job_content returns: the cleaned HTML, or None on any failure
FetchOutcomes == { "html", None }

\* bool(d) of a dict
DictTruthy(d) == DOMAIN d # {}

\* search_job_detail_database that never finds the URL
search_job_detail_database_missing(file, job_url) == EmptyDict

\* JobRecommender.search_job_detail_database(job_url)
search_job_detail_database(file, job_url) ==
    IF read_json_raises(file) THEN EmptyDict
    ELSE IF job_url \in DOMAIN file.data THEN file.data[job_url]
    ELSE EmptyDict

\* JobRecommender.save_job_detail_to_database(job_url, data): the file after it
save_job_detail_to_database(file, job_url, data) ==
    IF read_json_raises(file) THEN file
    ELSE IF save_json_raises(file) THEN FailedSave(file)
    ELSE save_json(DictSet(file.data, job_url, DetailToJson(data)))

\* JobRecommender.get_job_detail(job_url), given what the site and the chat
\* model do if asked
get_job_detail(file, job_url, job_content, response) ==
    LET job_detail == search_job_detail_database(file, job_url)
    IN  IF DictTruthy(job_detail)
        THEN [status |-> "returned", detail |-> job_detail, file |-> file,
              fetches |-> 0, llm_calls |-> 0, writes |-> 0]
        ELSE LET parsed == parse_job_html_to_json(job_content, response)
             IN  [status |-> parsed.status, detail |-> parsed.detail,
                  file |-> IF parsed.status = "returned"
                           THEN save_job_detail_to_database(file, job_url, parsed.detail)
                           ELSE file,
                  fetches |-> 1, llm_calls |-> parsed.llm_calls,
                  writes |-> IF /\ parsed.status = "returned"
                                /\ ~read_json_raises(file)
                                /\ ~save_json_raises(file)
                             THEN 1 ELSE 0]

(***************************************************************************)
(* JobReranker: embeddings, cosine similarity and the job text.            *)
(***************************************************************************)
\* embedding vectors the provider returns; their norms are whole numbers, so
\* that every cosine is a fraction, and the cosine of the two is negative
Embeddings == { <<1, 0>>, <<-3, 4>> }

\* what one embeddings.create call yields: it raises (ok = FALSE), or a vector
NoEmbedding == [ok |-> FALSE, embedding |-> <<>>]
EmbeddingAnswers == {NoEmbedding} \cup { [ok |-> TRUE, embedding |-> e] : e \in Embeddings }

RECURSIVE Dot(_, _)
Dot(vec1, vec2) ==
    IF vec1 = <<>> THEN 0
    ELSE Head(vec1) * Head(vec2) + Dot(Tail(vec1), Tail(vec2))

\* np.linalg.norm of a vector whose norm is a whole number
Norm(vec) == CHOOSE r \in 0..Dot(vec, vec) : r * r = Dot(vec, vec)

Abs(n) == IF n < 0 THEN 0 - n ELSE n

RECURSIVE GCD(_, _)
GCD(a, b) == IF b = 0 THEN a ELSE GCD(b, a % b)

\* a similarity score: the fraction num/den in lowest terms, den > 0
Fraction(num, den) ==
    LET g == GCD(Abs(num), den)
    IN  [num |-> num \div g, den |-> den \div g]

\* the float 0.0
Zero == [num |-> 0, den |-> 1]

\* a >= b on scores
ScoreGe(a, b) == a.num * b.den >= b.num * a.den

\* _calculate_cosine_similarity without the check of lines 127-128: the
\* division of line 130 is made with a zero divisor
_calculate_cosine_similarity_unguarded(vec1, vec2) ==
    IF Len(vec1) # Len(vec2) THEN [status |-> "raised", value |-> Zero]
    ELSE IF Norm(vec1) * Norm(vec2) = 0
    THEN [status |-> "returned", value |-> [num |-> Dot(vec1, vec2), den |-> 0]]
    ELSE [status |-> "returned",
          value |-> Fraction(Dot(vec1, vec2), Norm(vec1) * Norm(vec2))]

\* JobReranker._calculate_cosine_similarity(vec1, vec2); np.dot raises on
\* vectors of different lengths
_calculate_cosine_similarity(vec1, vec2) ==
    IF Len(vec1) # Len(vec2) THEN [status |-> "raised", value |-> Zero]
    ELSE IF Norm(vec1) = 0 \/ Norm(vec2) = 0 THEN [status |-> "returned", value |-> Zero]
    ELSE [status |-> "returned",
          value |-> Fraction(Dot(vec1, vec2), Norm(vec1) * Norm(vec2))]

\* the keys of a job detail dict, in the order model_dump gives them
JobDetailKeys ==
    << "job_title", "seniority_level", "company_name", "company_description",
       "is_remote", "employment_type", "posting_date", "close_date",
       "skills_mandatory", "skills_nice_to_have", "soft_skills", "domain_knowledge",
       "responsibilities", "experience_years_min", "experience_years_max",
       "experience_industries", "education_requirements", "risk_flags", "keywords" >>

\* the keys whose values are lists, and the ones whose values are dates
ListKeys ==
    {"skills_mandatory", "skills_nice_to_have", "soft_skills", "domain_knowledge",
     "responsibilities", "experience_industries", "risk_flags", "keywords"}
DateKeys == {"posting_date", "close_date"}

\* the part _extract_job_text makes of one item, as <<key, value>>; <<>> when
\* the item is skipped (None, "" or an empty list)
TextPart(key, value) ==
    IF key \in ListKeys
    THEN (IF Truthy(value) THEN <<key, value>> ELSE <<>>)
    ELSE IF key \in DateKeys
    THEN (IF value.type = "NoneType" \/ value.v = "" THEN <<>> ELSE <<key, value.v>>)
    ELSE (IF value = None \/ value = "" THEN <<>> ELSE <<key, value>>)

\* JobReranker._extract_job_text(job_detail): the parts that " | " joins
RECURSIVE TextParts(_, _)
TextParts(job_detail, keys) ==
    IF keys = <<>> THEN <<>>
    ELSE LET part == TextPart(Head(keys), job_detail[Head(keys)])
         IN  (IF part = <<>> THEN <<>> ELSE <<part>>) \o TextParts(job_detail, Tail(keys))

_extract_job_text(job_detail) == TextParts(job_detail, JobDetailKeys)

\* JobReranker._get_embedding(text), given the provider's answer
_get_embedding(answer) ==
    IF ~answer.ok THEN [status |-> "raised", embedding |-> <<>>]
    ELSE [status |-> "returned", embedding |-> answer.embedding]

\* JobReranker._get_cached_embedding(text, url), given the provider's answers
\* to the calls it makes, in order.  Every exception of the try block, the
\* provider's included, leads to the direct call of line 107.
_get_cached_embedding(file, cache_key, answers) ==
    IF read_json_raises(file)
    THEN LET direct == _get_embedding(answers[1])
         IN  [status |-> direct.status, embedding |-> direct.embedding, file |-> file,
              embed_calls |-> 1, source |-> "provider"]
    ELSE IF cache_key \in DOMAIN file.data
    THEN [status |-> "returned", embedding |-> file.data[cache_key], file |-> file,
          embed_calls |-> 0, source |-> "cache"]
    ELSE LET first == _get_embedding(answers[1])
             direct == _get_embedding(answers[2])
         IN  IF first.status = "raised"
             THEN [status |-> direct.status, embedding |-> direct.embedding,
                   file |-> file, embed_calls |-> 2, source |-> "provider"]
             ELSE IF save_json_raises(file)
             THEN [status |-> direct.status, embedding |-> direct.embedding,
                   file |-> FailedSave(file), embed_calls |-> 2, source |-> "provider"]
             ELSE [status |-> "returned", embedding |-> first.embedding,
                   file |-> save_json(DictSet(file.data, cache_key, first.embedding)),
                   embed_calls |-> 1, source |-> "provider"]

\* the loop body without its except clause: a failed embedding leaves the loop
ScoreJob_propagating(file, user_embedding, job_url, job_detail, answers) ==
    IF ~Truthy(_extract_job_text(job_detail))
    THEN [status |-> "appended", similarity |-> Zero, file |-> file, embed_calls |-> 0,
          source |-> "notext", embedding |-> <<>>]
    ELSE LET e == _get_cached_embedding(file, job_url, answers)
             c == _calculate_cosine_similarity(user_embedding, e.embedding)
         IN  IF e.status = "raised" \/ c.status = "raised"
             THEN [status |-> "raised", similarity |-> Zero, file |-> e.file,
                   embed_calls |-> e.embed_calls, source |-> "failed", embedding |-> <<>>]
             ELSE [status |-> "appended", similarity |-> c.value,
                   file |-> e.file, embed_calls |-> e.embed_calls, source |-> e.source,
                   embedding |-> e.embedding]

\* the body of the loop of rerank_jobs for one job (lines 187-206): the score
\* appended, the embedding file after it, and the provider calls made
ScoreJob(file, user_embedding, job_url, job_detail, answers) ==
    IF ~Truthy(_extract_job_text(job_detail))
    THEN [status |-> "appended", similarity |-> Zero, file |-> file, embed_calls |-> 0,
          source |-> "notext", embedding |-> <<>>]
    ELSE LET e == _get_cached_embedding(file, job_url, answers)
             c == _calculate_cosine_similarity(user_embedding, e.embedding)
         IN  IF e.status = "raised"
             THEN [status |-> "appended", similarity |-> Zero, file |-> e.file,
                   embed_calls |-> e.embed_calls, source |-> "failed", embedding |-> <<>>]
             ELSE [status |-> "appended",
                   similarity |-> IF c.status = "raised" THEN Zero ELSE c.value,
                   file |-> e.file, embed_calls |-> e.embed_calls, source |-> e.source,
                   embedding |-> e.embedding]

\* rerank_jobs without the sort of line 209
SortBySimilarity_unsorted(job_similarities) == job_similarities

\* list.sort(key=lambda x: x[1], reverse=True) with the ties turned round
RECURSIVE SortBySimilarity_reversing(_)
SortBySimilarity_reversing(job_similarities) ==
    IF job_similarities = <<>> THEN <<>>
    ELSE LET best == CHOOSE i \in 1..Len(job_similarities) :
                        \A j \in 1..Len(job_similarities) :
                            IF j > i
                            THEN ~ScoreGe(job_similarities[j].similarity,
                                          job_similarities[i].similarity)
                            ELSE ScoreGe(job_similarities[i].similarity,
                                         job_similarities[j].similarity)
             rest == [k \in 1..(Len(job_similarities) - 1) |->
                         IF k < best THEN job_similarities[k] ELSE job_similarities[k + 1]]
         IN  <<job_similarities[best]>> \o SortBySimilarity_reversing(rest)

\* job_similarities.sort(key=lambda x: x[1], reverse=True): a stable sort,
\* highest score first, equal scores in the order they were appended
RECURSIVE SortBySimilarity(_)
SortBySimilarity(job_similarities) ==
    IF job_similarities = <<>> THEN <<>>
    ELSE LET best == CHOOSE i \in 1..Len(job_similarities) :
                        \A j \in 1..Len(job_similarities) :
                            IF j < i
                            THEN ~ScoreGe(job_similarities[j].similarity,
                                          job_similarities[i].similarity)
                            ELSE ScoreGe(job_similarities[i].similarity,
                                         job_similarities[j].similarity)
             rest == [k \in 1..(Len(job_similarities) - 1) |->
                         IF k < best THEN job_similarities[k] ELSE job_similarities[k + 1]]
         IN  <<job_similarities[best]>> \o SortBySimilarity(rest)

(***************************************************************************)
(* The state: the three JSON files, and the call in progress on the        *)
(* JobRecommender object (the program is sequential: one call at a time).  *)
(***************************************************************************)
VARIABLES
    search_url_table,     \* job_urls_database/search_url_table.json
    job_detail_table,     \* job_urls_database/job_detail_table.json
    job_embedding_table,  \* job_urls_database/job_embedding_table.json
    pc,                   \* "new", "init_failed", "idle", "titles", "resolving",
                          \* "returned", "raised"; "scraped" in a process that
                          \* used the scraper alone
    op,                   \* the top-level call in progress or last made
    ncalls,               \* top-level calls started on the object
    args,                 \* the arguments of that call
    recommendations,      \* recommend_jobs_urls: the JobTitleRecord of step 1
    location,             \* get_job_urls_by_recommds: location, and whether it is None
    title_idx,            \* get_job_urls_by_recommds: index of the next title
    all_job_urls,         \* get_job_urls_by_recommds: the accumulator
    outcome,              \* what the call returned or raised
    steps,                \* the stages the call has run, in order
    llm_response,         \* the chat model's answer to the call's title prompt
    contrib,              \* per title resolved: its search URL, list, and source
    url_idx,              \* get_job_details_by_urls: index of the next URL
    all_job_details,      \* get_job_details_by_urls: the accumulator
    extraction,           \* the last get_job_detail: its inputs, result and calls
    calls,                \* external calls and cache writes made by the call
    searches_of,          \* Listing Source searches made so far, per search URL
    resolved,             \* inputs of completed resolutions, with the list returned
    job_idx,              \* rerank_jobs: index of the next item of job_data
    user_embedding,       \* rerank_jobs: the embedding of the description
    job_similarities,     \* rerank_jobs: the accumulator
    scoring,              \* per job scored: where its embedding came from
    reranked,             \* the list rerank_jobs returned to get_top_jobs
    nfaults,              \* file-system faults set so far
    restarts,             \* processes started after the first
    workers               \* concurrent callers: their position and locals

files == <<search_url_table, job_detail_table, job_embedding_table>>
resolver_locals == <<location, title_idx, all_job_urls, contrib>>
batch_locals == <<url_idx, all_job_details>>
rerank_locals == <<job_idx, user_embedding, job_similarities, scoring, reranked>>
process_state == <<nfaults, restarts, workers>>
vars == <<search_url_table, job_detail_table, job_embedding_table, pc, op, ncalls,
          args, recommendations, location, title_idx, all_job_urls, outcome, steps,
          llm_response, contrib, url_idx, all_job_details, extraction, calls,
          searches_of, resolved, job_idx, user_embedding, job_similarities, scoring,
          reranked, nfaults, restarts, workers>>

NoArgs == [description |-> <<>>, top_n |-> 0, job_recommends |-> NoRecord, job_url |-> 0,
           job_urls |-> <<>>, job_data |-> <<>>]
NoOutcome == [status |-> "none", error |-> None, record |-> NoRecord, urls |-> <<>>,
              detail |-> JobDescriptionRecord_default, details |-> EmptyDict,
              ranked |-> <<>>]
NoCalls == [llm |-> 0, searches |-> 0, page_requests |-> 0, fetches |-> 0, writes |-> 0,
            embeds_user |-> 0, embeds_job |-> 0]
NoResponse == [kind |-> "none", job_titles |-> <<>>, location |-> <<>>]
NoLocation == [value |-> <<>>, is_none |-> TRUE]
NoExtraction ==
    [n |-> 0, job_url |-> 0, job_content |-> "unfetched", kind |-> "none",
     status |-> "none", detail |-> JobDescriptionRecord_default,
     fetches |-> 0, llm_calls |-> 0, writes |-> 0,
     record |-> JobDescriptionRecord_default, table_fault |-> "none"]

Raised(error) == [NoOutcome EXCEPT !.status = "raised", !.error = error]

\* two callers that may run at the same time, and a caller that has not started
Workers == {1, 2}
NoWorker == [pc |-> "idle", kind |-> "none", key |-> 0, table |-> EmptyDict,
             value |-> EmptyDict, mixed |-> FALSE, saved |-> FALSE]

\* the process starts with no recommender object and, on a fresh checkout, no
\* database directory
Init ==
    /\ search_url_table = AbsentFile
    /\ job_detail_table = AbsentFile
    /\ job_embedding_table = AbsentFile
    /\ pc = "new"
    /\ op = "none"
    /\ ncalls = 0
    /\ args = NoArgs
    /\ recommendations = NoRecord
    /\ location = NoLocation
    /\ title_idx = 0
    /\ all_job_urls = <<>>
    /\ outcome = NoOutcome
    /\ steps = <<>>
    /\ llm_response = NoResponse
    /\ contrib = <<>>
    /\ url_idx = 0
    /\ all_job_details = EmptyDict
    /\ extraction = NoExtraction
    /\ calls = NoCalls
    /\ searches_of = EmptyDict
    /\ resolved = EmptyDict
    /\ job_idx = 0
    /\ user_embedding = <<>>
    /\ job_similarities = <<>>
    /\ scoring = <<>>
    /\ reranked = <<>>
    /\ nfaults = 0
    /\ restarts = 0
    /\ workers = [w \in Workers |-> NoWorker]

\* the locals of rerank_jobs are gone when another call is entered
ResetRerank ==
    /\ job_idx' = 0
    /\ user_embedding' = <<>>
    /\ job_similarities' = <<>>
    /\ scoring' = <<>>
    /\ reranked' = <<>>

\* _init_database writing {} whether the file exists or not
InitFile_overwriting(file) == save_json(EmptyDict)

\* _init_database: an absent file is created holding {}, an existing one is kept
InitFile(file) == IF file.exists THEN file ELSE save_json(EmptyDict)

\* JobRecommender.__init__ (which constructs the JobReranker, whose
\* _init_database creates the embedding table)
Construct ==
    /\ pc = "new"
    /\ \E api_key \in BOOLEAN :
         IF ~api_key
         THEN /\ pc' = "init_failed"
              /\ outcome' = Raised("ValueError")
              /\ UNCHANGED files
         ELSE /\ pc' = "idle"
              /\ outcome' = NoOutcome
              /\ job_embedding_table' = InitFile(job_embedding_table)
              /\ search_url_table' = InitFile(search_url_table)
              /\ job_detail_table' = InitFile(job_detail_table)
    /\ op' = "JobRecommender"
    /\ UNCHANGED <<ncalls, args, recommendations, resolver_locals, steps, llm_response,
                   batch_locals, extraction, calls, searches_of, resolved>>
    /\ UNCHANGED <<rerank_locals, process_state>>

\* a new top-level call may start when the previous one is over
CanCall == pc \in {"idle", "returned", "raised"} /\ ncalls < MaxCalls

\* the chat model answers only a prompt that is sent
AnswersTo(description) ==
    IF Truthy(strip(description)) THEN TitleResponses ELSE {NoResponse}

\* a direct call of recommend_titles(description) is entered
TitlesCall ==
    /\ CanCall
    /\ \E description \in Descriptions :
         args' = [NoArgs EXCEPT !.description = description]
    /\ op' = "recommend_titles"
    /\ pc' = "titles"
    /\ ncalls' = ncalls + 1
    /\ outcome' = NoOutcome
    /\ steps' = <<>>
    /\ calls' = NoCalls
    /\ llm_response' = NoResponse
    /\ recommendations' = NoRecord
    /\ location' = NoLocation
    /\ title_idx' = 0
    /\ all_job_urls' = <<>>
    /\ contrib' = <<>>
    /\ UNCHANGED <<files, batch_locals, extraction, searches_of, resolved>>
    /\ ResetRerank
    /\ UNCHANGED process_state

\* the body of recommend_titles (lines 159-175) in a direct call
TitlesAnswer ==
    /\ pc = "titles"
    /\ op = "recommend_titles"
    /\ \E response \in AnswersTo(args.description) :
         LET r == recommend_titles(args.description, response)
         IN  /\ llm_response' = IF r.llm_calls = 0 THEN NoResponse ELSE response
             /\ outcome' = [NoOutcome EXCEPT !.status = r.status, !.error = r.error,
                                             !.record = r.value]
             /\ calls' = [calls EXCEPT !.llm = @ + r.llm_calls]
             /\ pc' = r.status
    /\ steps' = Append(steps, "titles")
    /\ UNCHANGED <<files, op, ncalls, args, recommendations, resolver_locals,
                   batch_locals, extraction, searches_of, resolved>>
    /\ UNCHANGED <<rerank_locals, process_state>>

\* lines 188-192 of get_job_urls_by_recommds: a 'none' location becomes None
NormLocation(loc) ==
    IF LocationIsNone(loc) THEN NoLocation ELSE [value |-> loc, is_none |-> FALSE]

\* JobTitleRecords a caller can hold: the ones the parser lets through
TitleRecords ==
    { JobTitleRecord_parse(r).record : r \in {x \in TitleResponses : JobTitleRecord_parse(x).ok} }

\* records passed to direct calls of get_job_urls_by_recommds
ResolveInputs == { r \in TitleRecords : r.location \in {<<"N", "o", "n", "e">>} }

\* extend putting the new items in front
extend_front(list, items) == items \o list

\* list.extend(items) (line 215)
extend(list, items) == list \o items

\* d.get(k, 0)
CountOf(d, k) == IF k \in DOMAIN d THEN d[k] ELSE 0

\* a direct call of get_job_urls_by_recommds(job_recommends): up to the loop
ResolveCall ==
    /\ CanCall
    /\ \E job_recommends \in ResolveInputs :
         /\ args' = [NoArgs EXCEPT !.job_recommends = job_recommends]
         /\ location' = NormLocation(job_recommends.location)
    /\ op' = "get_job_urls_by_recommds"
    /\ pc' = "resolving"
    /\ ncalls' = ncalls + 1
    /\ title_idx' = 1
    /\ all_job_urls' = <<>>
    /\ contrib' = <<>>
    /\ outcome' = NoOutcome
    /\ steps' = <<>>
    /\ llm_response' = NoResponse
    /\ calls' = NoCalls
    /\ recommendations' = NoRecord
    /\ UNCHANGED <<files, batch_locals, extraction, searches_of, resolved>>
    /\ ResetRerank
    /\ UNCHANGED process_state

\* the job_titles the loop of get_job_urls_by_recommds runs over
LoopTitles ==
    IF op = "recommend_jobs_urls" THEN recommendations.job_titles
    ELSE args.job_recommends.job_titles

\* the site is consulted only when the cache gives no list
SitesSeenBy(job_title) ==
    IF Truthy(search_url_database(search_url_table,
                                  SearchUrlOf(job_title, location.value, location.is_none)))
    THEN {NoSite}
    ELSE SiteViews

\* one iteration of the loop of get_job_urls_by_recommds (lines 195-215)
ResolveTitle ==
    /\ pc = "resolving"
    /\ title_idx <= Len(LoopTitles)
    /\ \E pages \in SitesSeenBy(LoopTitles[title_idx]) :
         LET search_url == SearchUrlOf(LoopTitles[title_idx], location.value, location.is_none)
             r == get_job_urls_by_recommd(search_url_table, search_url, pages)
         IN  /\ search_url_table' = r.file
             /\ calls' = [calls EXCEPT !.searches = @ + r.searches,
                                        !.page_requests = @ + r.requests,
                                        !.writes = @ + r.writes]
             /\ searches_of' = IF r.searches = 0 THEN searches_of
                               ELSE DictSet(searches_of, search_url,
                                            CountOf(searches_of, search_url) + 1)
             /\ contrib' = Append(contrib,
                                  [search_url |-> search_url, urls |-> r.urls,
                                   searches |-> r.searches,
                                   first_page_failed |-> r.first_page_failed,
                                   scraped |-> IF r.searches = 0 THEN <<>>
                                               ELSE get_job_urls(pages, max_pages).urls,
                                   table_fault |-> search_url_table.fault])
             /\ IF r.status = "raised"
                THEN /\ pc' = "raised"
                     /\ outcome' = Raised("Exception")
                     /\ UNCHANGED <<all_job_urls, title_idx>>
                ELSE /\ all_job_urls' = extend(all_job_urls, r.urls)
                     /\ title_idx' = title_idx + 1
                     /\ UNCHANGED <<pc, outcome>>
    /\ UNCHANGED <<job_detail_table, job_embedding_table, op, ncalls, args,
                   recommendations, location, steps, llm_response, batch_locals,
                   extraction, resolved>>
    /\ UNCHANGED <<rerank_locals, process_state>>

\* the return of a direct call of get_job_urls_by_recommds (line 217)
ResolveReturn ==
    /\ pc = "resolving"
    /\ op = "get_job_urls_by_recommds"
    /\ title_idx > Len(LoopTitles)
    /\ pc' = "returned"
    /\ outcome' = [NoOutcome EXCEPT !.status = "returned", !.urls = all_job_urls]
    /\ steps' = Append(steps, "urls")
    /\ resolved' = IF args.job_recommends \in DOMAIN resolved THEN resolved
                   ELSE DictSet(resolved, args.job_recommends,
                                [urls |-> all_job_urls, call |-> ncalls])
    /\ UNCHANGED <<files, op, ncalls, args, recommendations, resolver_locals,
                   llm_response, batch_locals, extraction, calls, searches_of>>
    /\ UNCHANGED <<rerank_locals, process_state>>

\* location texts: every string of at most MaxLocLen of these characters
LocationTexts == SeqsUpTo({"x", " ", "o", "O", "r"}, MaxLocLen)

\* lines 188-212 of get_job_urls_by_recommds alone: the search URL the loop
\* builds for each title of a record with the given location (contrib holds
\* the URLs built; no search is made), once in a run
BuildSearchUrls ==
    /\ CanCall
    /\ ncalls = 0
    /\ \E r \in ResolveInputs, loc \in LocationTexts :
         /\ args' = [NoArgs EXCEPT !.job_recommends =
                                      [job_titles |-> r.job_titles, location |-> loc]]
         /\ location' = NormLocation(loc)
         /\ contrib' = [i \in 1..Len(r.job_titles) |->
                          [search_url |-> SearchUrlOf(r.job_titles[i],
                                                      NormLocation(loc).value,
                                                      NormLocation(loc).is_none),
                           urls |-> <<>>, searches |-> 0, first_page_failed |-> FALSE,
                           scraped |-> <<>>, table_fault |-> "none"]]
    /\ op' = "get_job_urls_by_recommds"
    /\ pc' = "idle"
    /\ ncalls' = ncalls + 1
    /\ title_idx' = 0
    /\ all_job_urls' = <<>>
    /\ outcome' = NoOutcome
    /\ steps' = <<>>
    /\ llm_response' = NoResponse
    /\ calls' = NoCalls
    /\ recommendations' = NoRecord
    /\ ResetRerank
    /\ UNCHANGED <<files, batch_locals, extraction, searches_of, resolved, process_state>>

\* the result pages of a search as the site would serve them, one outcome for
\* each page up to the largest cap, whether it is requested or not
SitePages == [1..MaxPageCap -> PageOutcomes]

\* SeekJobScraper.get_job_urls(url, max_pages) called on a scraper of its own,
\* in a process that constructs no recommender (lines 142-196 of
\* seek_scraper.py): contrib holds the cap, the site and the list returned
ScrapeCall ==
    /\ pc = "new"
    /\ \E cap \in 0..MaxPageCap, pages \in SitePages :
         LET r == get_job_urls(pages, cap)
         IN  /\ contrib' = << [search_url |-> <<>>, urls |-> r.urls, searches |-> 1,
                                first_page_failed |-> cap >= 1 /\ ~pages[1].ok,
                                scraped |-> r.urls, table_fault |-> "none",
                                max_pages |-> cap, pages |-> pages] >>
             /\ calls' = [NoCalls EXCEPT !.searches = 1, !.page_requests = r.requests]
             /\ outcome' = [NoOutcome EXCEPT !.status = "returned", !.urls = r.urls]
    /\ op' = "get_job_urls"
    /\ pc' = "scraped"
    /\ UNCHANGED <<files, ncalls, args, recommendations, location, title_idx,
                   all_job_urls, steps, llm_response, batch_locals, extraction,
                   searches_of, resolved, rerank_locals, process_state>>

\* search URLs passed to direct calls of get_job_urls_by_recommd
SearchUrls == { SearchUrlOf(job_title, <<>>, TRUE) : job_title \in TitleSet }

\* the site is consulted only when the cache gives no list
SitesSeenFor(search_url) ==
    IF Truthy(search_url_database(search_url_table, search_url)) THEN {NoSite}
    ELSE SiteViews

\* a direct call of get_job_urls_by_recommd(search_url) (lines 277-291)
SearchCall ==
    /\ CanCall
    /\ \E search_url \in SearchUrls :
       \E pages \in SitesSeenFor(search_url) :
         LET r == get_job_urls_by_recommd(search_url_table, search_url, pages)
         IN  /\ args' = NoArgs
             /\ search_url_table' = r.file
             /\ calls' = [NoCalls EXCEPT !.searches = r.searches,
                                         !.page_requests = r.requests,
                                         !.writes = r.writes]
             /\ searches_of' = IF r.searches = 0 THEN searches_of
                               ELSE DictSet(searches_of, search_url,
                                            CountOf(searches_of, search_url) + 1)
             /\ contrib' = << [search_url |-> search_url, urls |-> r.urls,
                                searches |-> r.searches,
                                first_page_failed |-> r.first_page_failed,
                                scraped |-> IF r.searches = 0 THEN <<>>
                                            ELSE get_job_urls(pages, max_pages).urls,
                                table_fault |-> search_url_table.fault] >>
             /\ outcome' = IF r.status = "raised" THEN Raised("Exception")
                           ELSE [NoOutcome EXCEPT !.status = "returned", !.urls = r.urls]
             /\ pc' = r.status
    /\ op' = "get_job_urls_by_recommd"
    /\ ncalls' = ncalls + 1
    /\ steps' = <<"urls">>
    /\ llm_response' = NoResponse
    /\ recommendations' = NoRecord
    /\ location' = NoLocation
    /\ title_idx' = 0
    /\ all_job_urls' = <<>>
    /\ url_idx' = 0
    /\ all_job_details' = EmptyDict
    /\ extraction' = NoExtraction
    /\ ResetRerank
    /\ UNCHANGED <<job_detail_table, job_embedding_table, resolved, process_state>>

\* what one get_job_detail(job_url) leaves in the history: what the site and
\* the chat model gave, and the result r of the call
ExtractionOf(job_url, job_content, response, r) ==
    [n |-> extraction.n + 1, job_url |-> job_url,
     job_content |-> IF r.fetches = 0 THEN "unfetched" ELSE job_content,
     kind |-> IF r.llm_calls = 0 THEN "none" ELSE response.kind,
     status |-> r.status, detail |-> r.detail,
     fetches |-> r.fetches, llm_calls |-> r.llm_calls, writes |-> r.writes,
     record |-> IF r.llm_calls = 0 THEN JobDescriptionRecord_default ELSE response.record,
     table_fault |-> job_detail_table.fault]

\* the site and the chat model are consulted only when the cache gives no
\* record: what they give then, as <<job_content, response>>
GivenFor(job_url) ==
    IF DictTruthy(search_job_detail_database(job_detail_table, job_url))
    THEN { <<"unfetched", [kind |-> "none", record |-> JobDescriptionRecord_default]>> }
    ELSE FetchOutcomes \X DetailResponses

\* a direct call of get_job_detail(job_url), as the /job-detail endpoint makes
DetailCall ==
    /\ CanCall
    /\ \E job_url \in Urls :
       \E given \in GivenFor(job_url) :
         LET job_content == given[1]
             response == given[2]
             r == get_job_detail(job_detail_table, job_url, job_content, response)
         IN  /\ args' = [NoArgs EXCEPT !.job_url = job_url]
             /\ job_detail_table' = r.file
             /\ extraction' = ExtractionOf(job_url, job_content, response, r)
             /\ calls' = [NoCalls EXCEPT !.fetches = r.fetches, !.llm = r.llm_calls,
                                         !.writes = r.writes]
             /\ outcome' = IF r.status = "raised" THEN Raised("Exception")
                           ELSE [NoOutcome EXCEPT !.status = "returned",
                                                  !.detail = r.detail]
             /\ pc' = r.status
    /\ op' = "get_job_detail"
    /\ ncalls' = ncalls + 1
    /\ steps' = <<"details">>
    /\ llm_response' = NoResponse
    /\ recommendations' = NoRecord
    /\ location' = NoLocation
    /\ title_idx' = 0
    /\ all_job_urls' = <<>>
    /\ contrib' = <<>>
    /\ url_idx' = 0
    /\ all_job_details' = EmptyDict
    /\ UNCHANGED <<search_url_table, job_embedding_table, searches_of, resolved>>
    /\ ResetRerank
    /\ UNCHANGED process_state

\* URL lists passed to get_job_details_by_urls
UrlLists == { l \in SeqsUpTo(Urls, MaxBatch) : l # <<>> }

\* a direct call of get_job_details_by_urls(job_urls): up to the loop
BatchCall ==
    /\ CanCall
    /\ \E job_urls \in UrlLists :
         args' = [NoArgs EXCEPT !.job_urls = job_urls]
    /\ op' = "get_job_details_by_urls"
    /\ pc' = "extracting"
    /\ ncalls' = ncalls + 1
    /\ url_idx' = 1
    /\ all_job_details' = EmptyDict
    /\ outcome' = NoOutcome
    /\ steps' = <<>>
    /\ calls' = NoCalls
    /\ llm_response' = NoResponse
    /\ recommendations' = NoRecord
    /\ location' = NoLocation
    /\ title_idx' = 0
    /\ all_job_urls' = <<>>
    /\ contrib' = <<>>
    /\ UNCHANGED <<files, extraction, searches_of, resolved>>
    /\ ResetRerank
    /\ UNCHANGED process_state

\* one iteration of the loop of get_job_details_by_urls (lines 230-232)
BatchStep ==
    /\ pc = "extracting"
    /\ url_idx <= Len(args.job_urls)
    /\ \E given \in GivenFor(args.job_urls[url_idx]) :
         LET job_url == args.job_urls[url_idx]
             job_content == given[1]
             response == given[2]
             r == get_job_detail(job_detail_table, job_url, job_content, response)
         IN  /\ job_detail_table' = r.file
             /\ extraction' = ExtractionOf(job_url, job_content, response, r)
             /\ calls' = [calls EXCEPT !.fetches = @ + r.fetches, !.llm = @ + r.llm_calls,
                                       !.writes = @ + r.writes]
             /\ IF r.status = "raised"
                THEN /\ pc' = "raised"
                     /\ outcome' = Raised("Exception")
                     /\ UNCHANGED <<url_idx, all_job_details>>
                ELSE /\ all_job_details' = DictSet(all_job_details, job_url, r.detail)
                     /\ url_idx' = url_idx + 1
                     /\ UNCHANGED <<pc, outcome>>
    /\ UNCHANGED <<search_url_table, job_embedding_table, op, ncalls, args,
                   recommendations, resolver_locals, steps, llm_response, searches_of,
                   resolved>>
    /\ UNCHANGED <<rerank_locals, process_state>>

\* the return of get_job_details_by_urls (line 233)
BatchReturn ==
    /\ pc = "extracting"
    /\ url_idx > Len(args.job_urls)
    /\ pc' = "returned"
    /\ outcome' = [NoOutcome EXCEPT !.status = "returned", !.details = all_job_details]
    /\ steps' = Append(steps, "details")
    /\ UNCHANGED <<files, op, ncalls, args, recommendations, resolver_locals,
                   batch_locals, llm_response, extraction, calls, searches_of, resolved>>
    /\ UNCHANGED <<rerank_locals, process_state>>

\* top_n values a caller passes (10 is the default of recommend_jobs_urls)
TopNs == {-1, 0, 1, 2, 10}

Min(a, b) == IF a <= b THEN a ELSE b
Max(a, b) == IF a >= b THEN a ELSE b

\* s[:n]
Slice(s, n) ==
    IF n >= 0 THEN SubSeq(s, 1, Min(n, Len(s)))
    ELSE SubSeq(s, 1, Max(Len(s) + n, 0))

\* recommend_jobs_urls(description, top_n) is entered; the script's main()
\* makes this one call on the object it constructed
RunStart ==
    /\ pc = "idle"
    /\ ncalls = 0
    /\ \E description \in Descriptions, top_n \in TopNs :
         args' = [NoArgs EXCEPT !.description = description, !.top_n = top_n]
    /\ op' = "recommend_jobs_urls"
    /\ pc' = "titles"
    /\ ncalls' = ncalls + 1
    /\ outcome' = NoOutcome
    /\ steps' = <<>>
    /\ calls' = NoCalls
    /\ UNCHANGED <<files, recommendations, resolver_locals, llm_response, batch_locals,
                   extraction,
                   searches_of, resolved>>
    /\ ResetRerank
    /\ UNCHANGED process_state

\* recommend_jobs_urls going on with stock titles when recommend_titles raises
RunTitles_fallback ==
    /\ pc = "titles"
    /\ op = "recommend_jobs_urls"
    /\ \E response \in AnswersTo(args.description) :
         LET r == recommend_titles(args.description, response)
             stock == [job_titles |-> << <<"c">>, <<"c">> >>,
                       location |-> <<"N", "o", "n", "e">>]
             value == IF r.status = "raised" THEN stock ELSE r.value
         IN  /\ llm_response' = IF r.llm_calls = 0 THEN NoResponse ELSE response
             /\ calls' = [calls EXCEPT !.llm = @ + r.llm_calls]
             /\ recommendations' = value
             /\ pc' = "resolving"
             /\ location' = NormLocation(value.location)
             /\ title_idx' = 1
             /\ UNCHANGED outcome
    /\ steps' = Append(steps, "titles")
    /\ UNCHANGED <<files, op, ncalls, args, all_job_urls, contrib, batch_locals,
                   extraction, searches_of, resolved>>
    /\ UNCHANGED <<rerank_locals, process_state>>

\* line 305: recommendations = self.recommend_titles(description); an exception
\* leaves recommend_jobs_urls, otherwise get_job_urls_by_recommds is entered
RunTitles ==
    /\ pc = "titles"
    /\ op = "recommend_jobs_urls"
    /\ \E response \in AnswersTo(args.description) :
         LET r == recommend_titles(args.description, response)
         IN  /\ llm_response' = IF r.llm_calls = 0 THEN NoResponse ELSE response
             /\ calls' = [calls EXCEPT !.llm = @ + r.llm_calls]
             /\ recommendations' = r.value
             /\ IF r.status = "raised"
                THEN /\ pc' = "raised"
                     /\ outcome' = Raised(r.error)
                     /\ UNCHANGED <<location, title_idx>>
                ELSE /\ pc' = "resolving"
                     /\ location' = NormLocation(r.value.location)
                     /\ title_idx' = 1
                     /\ UNCHANGED outcome
    /\ steps' = Append(steps, "titles")
    /\ UNCHANGED <<files, op, ncalls, args, all_job_urls, contrib, batch_locals,
                   extraction,
                   searches_of, resolved>>
    /\ UNCHANGED <<rerank_locals, process_state>>

\* line 310: return job_urls[:top_n]
RunReturn ==
    /\ pc = "resolving"
    /\ op = "recommend_jobs_urls"
    /\ title_idx > Len(LoopTitles)
    /\ pc' = "returned"
    /\ outcome' = [NoOutcome EXCEPT !.status = "returned",
                                    !.urls = Slice(all_job_urls, args.top_n)]
    /\ steps' = Append(steps, "urls")
    /\ UNCHANGED <<files, op, ncalls, args, recommendations, resolver_locals,
                   llm_response, batch_locals, extraction, calls, searches_of, resolved>>
    /\ UNCHANGED <<rerank_locals, process_state>>

\* job_recommender.recommend_jobs(description, top_n) of the package's
\* __init__.py: it constructs a JobRecommender and calls its recommend_jobs,
\* a method the class does not define (AttributeError)
PackageRecommendJobs ==
    /\ pc = "new"
    /\ \E description \in Descriptions, top_n \in TopNs, api_key \in BOOLEAN :
         /\ args' = [NoArgs EXCEPT !.description = description, !.top_n = top_n]
         /\ IF ~api_key
            THEN /\ outcome' = Raised("ValueError")
                 /\ UNCHANGED files
            ELSE /\ outcome' = Raised("AttributeError")
                 /\ job_embedding_table' = InitFile(job_embedding_table)
                 /\ search_url_table' = InitFile(search_url_table)
                 /\ job_detail_table' = InitFile(job_detail_table)
    /\ op' = "recommend_jobs"
    /\ pc' = "raised"
    /\ ncalls' = ncalls + 1
    /\ UNCHANGED <<recommendations, resolver_locals, steps, llm_response, batch_locals,
                   extraction,
                   calls, searches_of, resolved>>
    /\ UNCHANGED <<rerank_locals, process_state>>

(***************************************************************************)
(* The calls of the JobReranker held by the recommender.                   *)
(***************************************************************************)
\* descriptions passed to the reranker: None or '', blank, and with text
RerankDescriptions == { <<>>, <<" ">>, <<" ", "d">> }

\* job details passed to the reranker: one with text to embed, and one with
\* every field None or empty
TextlessDetail == [JobDescriptionRecord_default EXCEPT !.seniority_level = None]
RerankDetails == { JobDescriptionRecord_default, TextlessDetail }

\* the job_data dicts passed: items in insertion order, no URL twice
JobDatas ==
    { d \in SeqsUpTo([url : Urls, detail : RerankDetails], MaxBatch) :
        \A i, j \in 1..Len(d) : i # j => d[i].url # d[j].url }

\* rerank_jobs fetching the user embedding before it looks at job_data
rerank_jobs_enter_embedding_first(user_description, job_data, answer) ==
    IF ~Truthy(user_description) \/ ~Truthy(strip(user_description))
    THEN [status |-> "raised", error |-> "ValueError", user_embedding |-> <<>>,
          embed_calls |-> 0]
    ELSE LET e == _get_embedding(answer)
         IN  IF e.status = "raised"
             THEN [status |-> "raised", error |-> "Exception", user_embedding |-> <<>>,
                   embed_calls |-> 1]
             ELSE IF ~Truthy(job_data)
             THEN [status |-> "returned", error |-> None, user_embedding |-> <<>>,
                   embed_calls |-> 1]
             ELSE [status |-> "scoring", error |-> None, user_embedding |-> e.embedding,
                   embed_calls |-> 1]

\* rerank_jobs looking at job_data before it validates the description
rerank_jobs_enter_empty_first(user_description, job_data, answer) ==
    IF ~Truthy(job_data)
    THEN [status |-> "returned", error |-> None, user_embedding |-> <<>>,
          embed_calls |-> 0]
    ELSE IF ~Truthy(user_description) \/ ~Truthy(strip(user_description))
    THEN [status |-> "raised", error |-> "ValueError", user_embedding |-> <<>>,
          embed_calls |-> 0]
    ELSE LET e == _get_embedding(answer)
         IN  IF e.status = "raised"
             THEN [status |-> "raised", error |-> "Exception", user_embedding |-> <<>>,
                   embed_calls |-> 1]
             ELSE [status |-> "scoring", error |-> None, user_embedding |-> e.embedding,
                   embed_calls |-> 1]

\* rerank_jobs asking the provider a second time when the call for the
\* description raised
rerank_jobs_enter_retrying(user_description, job_data, answer) ==
    IF ~Truthy(user_description) \/ ~Truthy(strip(user_description))
    THEN [status |-> "raised", error |-> "ValueError", user_embedding |-> <<>>,
          embed_calls |-> 0]
    ELSE IF ~Truthy(job_data)
    THEN [status |-> "returned", error |-> None, user_embedding |-> <<>>,
          embed_calls |-> 0]
    ELSE LET e == _get_embedding(answer)
         IN  IF e.status = "raised"
             THEN [status |-> "raised", error |-> "Exception", user_embedding |-> <<>>,
                   embed_calls |-> 2]
             ELSE [status |-> "scoring", error |-> None, user_embedding |-> e.embedding,
                   embed_calls |-> 1]

\* lines 172-181 of rerank_jobs, given the provider's answer for the
\* description: the validation, the empty job_data, the user embedding
rerank_jobs_enter(user_description, job_data, answer) ==
    IF ~Truthy(user_description) \/ ~Truthy(strip(user_description))
    THEN [status |-> "raised", error |-> "ValueError", user_embedding |-> <<>>,
          embed_calls |-> 0]
    ELSE IF ~Truthy(job_data)
    THEN [status |-> "returned", error |-> None, user_embedding |-> <<>>,
          embed_calls |-> 0]
    ELSE LET e == _get_embedding(answer)
         IN  IF e.status = "raised"
             THEN [status |-> "raised", error |-> "Exception", user_embedding |-> <<>>,
                   embed_calls |-> 1]
             ELSE [status |-> "scoring", error |-> None, user_embedding |-> e.embedding,
                   embed_calls |-> 1]

\* the provider answers only a request that is sent
UserAnswersTo(user_description, job_data) ==
    IF Truthy(strip(user_description)) /\ Truthy(job_data)
    THEN EmbeddingAnswers ELSE {NoEmbedding}

\* the provider's answers to the calls _get_cached_embedding makes for one
\* job, as <<first, second>> (NoEmbedding for a call that is not made)
AnswersFor(job_url, job_detail) ==
    IF ~Truthy(_extract_job_text(job_detail)) THEN { <<NoEmbedding, NoEmbedding>> }
    ELSE IF read_json_raises(job_embedding_table)
    THEN EmbeddingAnswers \X {NoEmbedding}
    ELSE IF job_url \in DOMAIN job_embedding_table.data
    THEN { <<NoEmbedding, NoEmbedding>> }
    ELSE IF save_json_raises(job_embedding_table)
    THEN EmbeddingAnswers \X EmbeddingAnswers
    ELSE ({NoEmbedding} \X EmbeddingAnswers)
         \cup ((EmbeddingAnswers \ {NoEmbedding}) \X {NoEmbedding})

\* vectors passed to _calculate_cosine_similarity: at most MaxDim components,
\* each a whole number of at most MaxCoord in size, the zero vectors among
\* them; only vectors with a whole-number norm, so that a cosine is a fraction
CosineVectors ==
    { vec \in SeqsUpTo((0 - MaxCoord)..MaxCoord, MaxDim) :
        \E r \in 0..Dot(vec, vec) : r * r = Dot(vec, vec) }

\* a call of _calculate_cosine_similarity(vec1, vec2) alone (lines 120-130),
\* once in a run: user_embedding holds vec1, scoring the vector vec2, and
\* job_similarities the value returned
CosineCall ==
    /\ CanCall
    /\ ncalls = 0
    /\ \E vec1 \in CosineVectors, vec2 \in CosineVectors :
         LET c == _calculate_cosine_similarity(vec1, vec2)
         IN  /\ user_embedding' = vec1
             /\ scoring' = <<[job_url |-> 0, source |-> "argument", embedding |-> vec2,
                              embed_calls |-> 0,
                              answers |-> <<NoEmbedding, NoEmbedding>>,
                              table_fault |-> "none"]>>
             /\ job_similarities' =
                    IF c.status = "raised" THEN <<>>
                    ELSE <<[url |-> 0, similarity |-> c.value,
                            detail |-> JobDescriptionRecord_default]>>
             /\ outcome' = IF c.status = "raised" THEN Raised("ValueError")
                           ELSE [NoOutcome EXCEPT !.status = "returned"]
             /\ pc' = c.status
    /\ op' = "_calculate_cosine_similarity"
    /\ ncalls' = ncalls + 1
    /\ args' = NoArgs
    /\ job_idx' = 0
    /\ reranked' = <<>>
    /\ steps' = <<>>
    /\ llm_response' = NoResponse
    /\ calls' = NoCalls
    /\ recommendations' = NoRecord
    /\ UNCHANGED <<files, resolver_locals, batch_locals, extraction, searches_of,
                   resolved, process_state>>

\* top_n values passed to get_top_jobs
RerankTopNs == {-1, 0, 1, 2}

\* a caller calls rerank_jobs
RerankCall ==
    /\ CanCall
    /\ op' = "rerank_jobs"
    /\ args' = NoArgs
    /\ pc' = "entered"
    /\ ncalls' = ncalls + 1
    /\ outcome' = NoOutcome
    /\ steps' = <<>>
    /\ calls' = NoCalls
    /\ llm_response' = NoResponse
    /\ recommendations' = NoRecord
    /\ location' = NoLocation
    /\ title_idx' = 0
    /\ all_job_urls' = <<>>
    /\ contrib' = <<>>
    /\ url_idx' = 0
    /\ all_job_details' = EmptyDict
    /\ extraction' = NoExtraction
    /\ ResetRerank
    /\ UNCHANGED <<files, searches_of, resolved, process_state>>

\* a caller calls get_top_jobs with some top_n; its line 228 calls rerank_jobs
TopJobsCall ==
    /\ CanCall
    /\ op' = "get_top_jobs"
    /\ \E top_n \in RerankTopNs :
         args' = [NoArgs EXCEPT !.top_n = top_n]
    /\ pc' = "entered"
    /\ ncalls' = ncalls + 1
    /\ outcome' = NoOutcome
    /\ steps' = <<>>
    /\ calls' = NoCalls
    /\ llm_response' = NoResponse
    /\ recommendations' = NoRecord
    /\ location' = NoLocation
    /\ title_idx' = 0
    /\ all_job_urls' = <<>>
    /\ contrib' = <<>>
    /\ url_idx' = 0
    /\ all_job_details' = EmptyDict
    /\ extraction' = NoExtraction
    /\ ResetRerank
    /\ UNCHANGED <<files, searches_of, resolved, process_state>>

\* rerank_jobs(user_description, job_data) is entered: lines 172-184
RerankEnterFrom(job_datas) ==
    /\ pc = "entered"
    /\ \E user_description \in RerankDescriptions, job_data \in job_datas :
       \E answer \in UserAnswersTo(user_description, job_data) :
         LET r == rerank_jobs_enter(user_description, job_data, answer)
         IN  /\ args' = [args EXCEPT !.description = user_description,
                                     !.job_data = job_data]
             /\ pc' = r.status
             /\ outcome' = IF r.status = "raised" THEN Raised(r.error)
                           ELSE IF r.status = "returned"
                           THEN [NoOutcome EXCEPT !.status = "returned"]
                           ELSE NoOutcome
             /\ user_embedding' = r.user_embedding
             /\ calls' = [calls EXCEPT !.embeds_user = r.embed_calls]
             /\ steps' = IF r.status = "returned" THEN <<"rerank">> ELSE <<>>
    /\ job_idx' = 1
    /\ UNCHANGED <<files, op, ncalls, recommendations, resolver_locals, llm_response,
                   batch_locals, extraction, searches_of, resolved, job_similarities,
                   scoring, reranked, process_state>>

RerankEnter == RerankEnterFrom(JobDatas)

\* one iteration of the loop of rerank_jobs (lines 186-206)
RerankStep ==
    /\ pc = "scoring"
    /\ job_idx <= Len(args.job_data)
    /\ LET job_url == args.job_data[job_idx].url
           job_detail == args.job_data[job_idx].detail
       IN  \E answers \in AnswersFor(job_url, job_detail) :
             LET r == ScoreJob(job_embedding_table, user_embedding, job_url, job_detail,
                               answers)
             IN  /\ job_embedding_table' = r.file
                 /\ calls' = [calls EXCEPT !.embeds_job = @ + r.embed_calls]
                 /\ scoring' = Append(scoring, [job_url |-> job_url, source |-> r.source,
                                                embedding |-> r.embedding,
                                                embed_calls |-> r.embed_calls,
                                                answers |-> answers,
                                                table_fault |-> job_embedding_table.fault])
                 /\ IF r.status = "raised"
                    THEN /\ pc' = "raised"
                         /\ outcome' = Raised("Exception")
                         /\ UNCHANGED <<job_similarities, job_idx>>
                    ELSE /\ job_similarities' =
                                Append(job_similarities,
                                       [url |-> job_url, similarity |-> r.similarity,
                                        detail |-> job_detail])
                         /\ job_idx' = job_idx + 1
                         /\ UNCHANGED <<pc, outcome>>
    /\ UNCHANGED <<search_url_table, job_detail_table, op, ncalls, args, recommendations,
                   resolver_locals, steps, llm_response, batch_locals, extraction,
                   searches_of, resolved, user_embedding, reranked, process_state>>

\* get_top_jobs keeping one entry fewer than asked for
get_top_jobs_short(reranked_jobs, top_n) == Slice(reranked_jobs, top_n - 1)

\* line 229 of get_top_jobs: return reranked_jobs[:top_n]
get_top_jobs(reranked_jobs, top_n) == Slice(reranked_jobs, top_n)

\* lines 208-213: the sort and the return of rerank_jobs, and line 229 when
\* get_top_jobs made the call
RerankReturn ==
    /\ pc = "scoring"
    /\ job_idx > Len(args.job_data)
    /\ LET sorted == SortBySimilarity(job_similarities)
       IN  /\ reranked' = sorted
           /\ outcome' = [NoOutcome EXCEPT
                            !.status = "returned",
                            !.ranked = IF op = "get_top_jobs"
                                       THEN get_top_jobs(sorted, args.top_n)
                                       ELSE sorted]
    /\ pc' = "returned"
    /\ steps' = Append(steps, "rerank")
    /\ UNCHANGED <<files, op, ncalls, args, recommendations, resolver_locals, llm_response,
                   batch_locals, extraction, calls, searches_of, resolved, job_idx,
                   user_embedding, job_similarities, scoring, process_state>>

(***************************************************************************)
(* Two callers at the same time: two get_job_detail calls, or two          *)
(* _get_cached_embedding calls, for different URLs that are not cached.    *)
(* Nothing in the code locks a file, so the callers interleave between any *)
(* two file operations: read_json, open(path, "w"), and the dump.          *)
(***************************************************************************)
\* the file a caller of the given kind reads and writes
WorkerFile(kind) == IF kind = "detail" THEN job_detail_table ELSE job_embedding_table

\* a file after open(path, "w") and before the dump is over: it holds no JSON
Truncated == [exists |-> TRUE, data |-> EmptyDict, fault |-> "read"]

\* what the callers leave alone
sequential_state ==
    <<pc, op, ncalls, args, recommendations, resolver_locals, outcome, steps,
      llm_response, batch_locals, extraction, calls, searches_of, resolved,
      rerank_locals, nfaults, restarts, search_url_table>>

\* a caller enters get_job_detail(key) or _get_cached_embedding(text, key)
WorkerStart ==
    /\ pc = "idle"
    /\ \E w \in Workers, kind \in {"detail", "embedding"}, key \in Urls :
         /\ workers[w].pc = "idle"
         /\ key \notin DOMAIN WorkerFile(kind).data
         /\ \A v \in Workers \ {w} :
              /\ workers[v].kind \in {"none", kind}
              /\ workers[v].key # key
         /\ workers' = [workers EXCEPT ![w] = [NoWorker EXCEPT !.pc = "lookup",
                                                              !.kind = kind,
                                                              !.key = key]]
    /\ UNCHANGED <<sequential_state, job_detail_table, job_embedding_table>>

\* two callers enter get_job_detail or _get_cached_embedding with one and the
\* same key, which is not cached when either of them enters
WorkerStartSame ==
    /\ pc = "idle"
    /\ \E w \in Workers, kind \in {"detail", "embedding"}, key \in Urls :
         /\ workers[w].pc = "idle"
         /\ key \notin DOMAIN WorkerFile(kind).data
         /\ \A v \in Workers \ {w} :
              \/ workers[v].kind = "none"
              \/ (workers[v].kind = kind /\ workers[v].key = key)
         /\ workers' = [workers EXCEPT ![w] = [NoWorker EXCEPT !.pc = "lookup",
                                                              !.kind = kind,
                                                              !.key = key]]
    /\ UNCHANGED <<sequential_state, job_detail_table, job_embedding_table>>

\* the first read_json: line 259 of search_job_detail_database, line 89 of
\* _get_cached_embedding (which keeps the table it read, and on an error goes
\* to the direct call of line 107)
WorkerLookup ==
    /\ \E w \in Workers :
         LET me == workers[w]
             file == WorkerFile(me.kind)
         IN  /\ me.pc = "lookup"
             /\ workers' = [workers EXCEPT ![w] =
                    IF read_json_raises(file)
                    THEN [me EXCEPT !.pc = IF me.kind = "detail" THEN "compute"
                                           ELSE "direct"]
                    ELSE IF me.key \in DOMAIN file.data
                    THEN [me EXCEPT !.pc = "done", !.value = file.data[me.key]]
                    ELSE [me EXCEPT !.pc = "compute",
                                    !.table = IF me.kind = "detail" THEN EmptyDict
                                              ELSE file.data]]
    /\ UNCHANGED <<sequential_state, job_detail_table, job_embedding_table>>

\* the external call: lines 243-244 of get_job_detail, line 96 of
\* _get_cached_embedding
WorkerCompute ==
    /\ \E w \in Workers :
         LET me == workers[w]
         IN  /\ me.pc = "compute"
             /\ IF me.kind = "detail"
                THEN \E job_content \in FetchOutcomes, response \in DetailResponses :
                       workers' = [workers EXCEPT ![w] =
                           [me EXCEPT !.pc = "save_read",
                                      !.value = parse_job_html_to_json(job_content,
                                                                       response).detail]]
                ELSE \E answer \in EmbeddingAnswers :
                       LET e == _get_embedding(answer)
                       IN  workers' = [workers EXCEPT ![w] =
                               IF e.status = "raised"
                               THEN [me EXCEPT !.pc = "direct"]
                               ELSE [me EXCEPT !.pc = "save_open",
                                               !.value = e.embedding,
                                               !.table = DictSet(me.table, me.key,
                                                                 e.embedding)]]
    /\ UNCHANGED <<sequential_state, job_detail_table, job_embedding_table>>

\* line 107 of _get_cached_embedding: the direct call, nothing is saved
WorkerDirect ==
    /\ \E w \in Workers, answer \in EmbeddingAnswers :
         LET me == workers[w]
             e == _get_embedding(answer)
         IN  /\ me.pc = "direct"
             /\ workers' = [workers EXCEPT ![w] =
                    [me EXCEPT !.pc = "done", !.value = e.embedding]]
    /\ UNCHANGED <<sequential_state, job_detail_table, job_embedding_table>>

\* lines 138-139 of save_job_detail_to_database: the whole table is read and
\* the entry put into that copy; a read error ends the save
WorkerSaveRead ==
    /\ \E w \in Workers :
         LET me == workers[w]
         IN  /\ me.pc = "save_read"
             /\ workers' = [workers EXCEPT ![w] =
                    IF read_json_raises(job_detail_table)
                    THEN [me EXCEPT !.pc = "done"]
                    ELSE [me EXCEPT !.pc = "save_open",
                                    !.table = DictSet(job_detail_table.data, me.key,
                                                      DetailToJson(me.value))]]
    /\ UNCHANGED <<sequential_state, job_detail_table, job_embedding_table>>

\* line 15 of save_json: open(path, "w") empties the file
WorkerSaveOpen ==
    /\ \E w \in Workers :
         LET me == workers[w]
             others == { v \in Workers \ {w} : /\ workers[v].pc = "save_dump"
                                                /\ workers[v].kind = me.kind }
         IN  /\ me.pc = "save_open"
             /\ workers' = [v \in Workers |->
                    IF v = w THEN [me EXCEPT !.pc = "save_dump", !.mixed = others # {}]
                    ELSE IF v \in others THEN [workers[v] EXCEPT !.mixed = TRUE]
                    ELSE workers[v]]
             /\ job_detail_table' = IF me.kind = "detail" THEN Truncated
                                    ELSE job_detail_table
             /\ job_embedding_table' = IF me.kind = "embedding" THEN Truncated
                                       ELSE job_embedding_table
    /\ UNCHANGED sequential_state

\* line 16 of save_json: the dump of the caller's copy of the table.  Two
\* dumps into the same open file leave one of the two texts or no JSON.
WorkerSaveDump ==
    /\ \E w \in Workers :
         LET me == workers[w]
         IN  /\ me.pc = "save_dump"
             /\ \E file \in IF me.mixed THEN {save_json(me.table), Truncated}
                              ELSE {save_json(me.table)} :
                  /\ job_detail_table' = IF me.kind = "detail" THEN file
                                         ELSE job_detail_table
                  /\ job_embedding_table' = IF me.kind = "embedding" THEN file
                                            ELSE job_embedding_table
             /\ workers' = [workers EXCEPT ![w] = [me EXCEPT !.pc = "done",
                                                            !.saved = TRUE]]
    /\ UNCHANGED sequential_state

(***************************************************************************)
(* The file system under the process.                                      *)
(***************************************************************************)
\* what can go wrong with a JSON file from now on
FaultKinds == {"read", "write_denied", "write_torn"}

\* the file with the given fault ahead
WithFault(file, kind) == [file EXCEPT !.fault = kind]

\* the file each operation reads and writes (lines 284-288 and 239-244 of
\* job_recommender.py, lines 87-101 of job_reranker.py)
TableOf(name) ==
    CASE name = "get_job_urls_by_recommd" -> "search_url_table"
      [] name = "get_job_detail" -> "job_detail_table"
      [] name = "rerank_jobs" -> "job_embedding_table"
      [] OTHER -> "none"

\* the file of the component in use, which _init_database has created,
\* becomes unreadable or unwritable between two calls, after the caller has
\* taken the result of the finished one
SetFault ==
    /\ pc \in {"returned", "raised"}
    /\ TableOf(op) # "none"
    /\ nfaults < MaxFaults
    /\ nfaults' = nfaults + 1
    /\ \E kind \in FaultKinds :
         /\ search_url_table' = IF TableOf(op) = "search_url_table"
                                THEN WithFault(search_url_table, kind)
                                ELSE search_url_table
         /\ job_detail_table' = IF TableOf(op) = "job_detail_table"
                                THEN WithFault(job_detail_table, kind)
                                ELSE job_detail_table
         /\ job_embedding_table' = IF TableOf(op) = "job_embedding_table"
                                   THEN WithFault(job_embedding_table, kind)
                                   ELSE job_embedding_table
    /\ pc' = "idle"
    /\ args' = NoArgs
    /\ outcome' = NoOutcome
    /\ steps' = <<>>
    /\ calls' = NoCalls
    /\ llm_response' = NoResponse
    /\ recommendations' = NoRecord
    /\ location' = NoLocation
    /\ title_idx' = 0
    /\ all_job_urls' = <<>>
    /\ contrib' = <<>>
    /\ url_idx' = 0
    /\ all_job_details' = EmptyDict
    /\ extraction' = NoExtraction
    /\ ResetRerank
    /\ UNCHANGED <<op, ncalls, searches_of, resolved, restarts, workers>>

\* the process ends after a call and a new one is started: the objects are
\* gone, the files stay (ncalls goes on counting the calls made on the files)
Restart ==
    /\ pc \in {"returned", "raised"}
    /\ restarts < MaxRestarts
    /\ restarts' = restarts + 1
    /\ pc' = "new"
    /\ op' = "none"
    /\ args' = NoArgs
    /\ outcome' = NoOutcome
    /\ steps' = <<>>
    /\ calls' = NoCalls
    /\ llm_response' = NoResponse
    /\ recommendations' = NoRecord
    /\ location' = NoLocation
    /\ title_idx' = 0
    /\ all_job_urls' = <<>>
    /\ contrib' = <<>>
    /\ url_idx' = 0
    /\ all_job_details' = EmptyDict
    /\ extraction' = NoExtraction
    /\ searches_of' = EmptyDict
    /\ resolved' = EmptyDict
    /\ ResetRerank
    /\ UNCHANGED <<files, ncalls, nfaults, workers>>

\* a process that exercises one component: its first call chooses it
SameComponent(name) == ncalls = 0 \/ op = name

SearchCall_again == SameComponent("get_job_urls_by_recommd") /\ SearchCall

DetailCall_again == SameComponent("get_job_detail") /\ DetailCall

RerankCall_again == SameComponent("rerank_jobs") /\ RerankCall

\* the calls of rerank_jobs here pass at most one job: what one job leaves in
\* the file is what the next call finds there
OneJobDatas == { job_data \in JobDatas : Len(job_data) <= 1 }

RerankEnter_one == RerankEnterFrom(OneJobDatas)

(***************************************************************************)
(* The specifications.  Spec is one run of the pipeline, as the script     *)
(* makes it; the others are a server process calling one component of the  *)
(* recommender repeatedly.                                                 *)
(***************************************************************************)
Next ==
    \/ Construct
    \/ RunStart
    \/ RunTitles
    \/ ResolveTitle
    \/ RunReturn
    \/ PackageRecommendJobs

Spec == Init /\ [][Next]_vars

NextTitles ==
    \/ Construct
    \/ TitlesCall
    \/ TitlesAnswer

SpecTitles == Init /\ [][NextTitles]_vars

NextResolve ==
    \/ Construct
    \/ ResolveCall
    \/ ResolveTitle
    \/ ResolveReturn

SpecResolve == Init /\ [][NextResolve]_vars

NextDetail ==
    \/ Construct
    \/ DetailCall
    \/ BatchCall
    \/ BatchStep
    \/ BatchReturn

SpecDetail == Init /\ [][NextDetail]_vars

NextRerank ==
    \/ Construct
    \/ RerankCall
    \/ RerankEnter
    \/ RerankStep
    \/ RerankReturn

SpecRerank == Init /\ [][NextRerank]_vars

NextCosine ==
    \/ Construct
    \/ CosineCall

SpecCosine == Init /\ [][NextCosine]_vars

NextFaults ==
    \/ Construct
    \/ SetFault
    \/ SearchCall_again
    \/ DetailCall_again
    \/ RerankCall_again
    \/ RerankEnter_one
    \/ RerankStep
    \/ RerankReturn

SpecFaults == Init /\ [][NextFaults]_vars

NextLocated ==
    \/ Construct
    \/ BuildSearchUrls

SpecLocated == Init /\ [][NextLocated]_vars

NextSearch ==
    \/ Construct
    \/ SearchCall

SpecSearch == Init /\ [][NextSearch]_vars

NextRestart ==
    \/ Construct
    \/ Restart
    \/ SearchCall
    \/ DetailCall
    \/ RerankCall
    \/ RerankEnter_one
    \/ RerankStep
    \/ RerankReturn

SpecRestart == Init /\ [][NextRestart]_vars

NextConcurrent ==
    \/ Construct
    \/ WorkerStart
    \/ WorkerLookup
    \/ WorkerCompute
    \/ WorkerDirect
    \/ WorkerSaveRead
    \/ WorkerSaveOpen
    \/ WorkerSaveDump

SpecConcurrent == Init /\ [][NextConcurrent]_vars

NextScrape ==
    \/ Construct
    \/ ScrapeCall
    \/ SearchCall

SpecScrape == Init /\ [][NextScrape]_vars

NextSameKey ==
    \/ Construct
    \/ WorkerStartSame
    \/ WorkerLookup
    \/ WorkerCompute
    \/ WorkerDirect
    \/ WorkerSaveRead
    \/ WorkerSaveOpen
    \/ WorkerSaveDump

SpecSameKey == Init /\ [][NextSameKey]_vars

NextTopJobs ==
    \/ Construct
    \/ TopJobsCall
    \/ RerankEnter
    \/ RerankStep
    \/ RerankReturn

SpecTopJobs == Init /\ [][NextTopJobs]_vars

(***************************************************************************)
(* The claims.                                                             *)
(***************************************************************************)
Finished == pc \in {"returned", "raised"}

\* C1: a recommend run that returns has run title generation, URL
\* resolution, detail extraction for every resolved URL and reranking, in
\* this order, none skipped.
C1_RunPerformsAllStages ==
    (op \in {"recommend_jobs", "recommend_jobs_urls"} /\ pc = "returned") =>
        /\ steps = <<"titles", "urls", "details", "rerank">>
        /\ \A i \in 1..Len(all_job_urls) :
               all_job_urls[i] \in DOMAIN job_detail_table.data

IsBlank(description) == \A i \in 1..Len(description) : description[i] = " "

\* C3: recommend_titles with an empty or whitespace-only description raises
\* ValueError and makes no completion call.
C3_BlankDescriptionRejected ==
    (op = "recommend_titles" /\ Finished /\ IsBlank(args.description)) =>
        /\ outcome.status = "raised"
        /\ outcome.error = "ValueError"
        /\ calls.llm = 0
        /\ llm_response = NoResponse

\* a whitespace-only description was rejected
C3_Witness ==
    /\ op = "recommend_titles"
    /\ pc = "raised"
    /\ Len(args.description) > 0
    /\ IsBlank(args.description)
    /\ outcome.error = "ValueError"

\* the completion call raised, or its answer does not fit the schema
TitleAnswerFails(response) ==
    \/ response.kind \in {"error", "unparsable"}
    \/ response.kind = "json" /\ Len(response.job_titles) # 2

\* C4: when the completion call raises or its answer does not parse, title
\* generation has made exactly one completion call, and the recommend run
\* ends raising, with no Listing Source call and no cache write.
C4_TitleFailureAbortsRun ==
    (op = "recommend_jobs_urls" /\ TitleAnswerFails(llm_response)) =>
        /\ pc = "raised"
        /\ outcome.status = "raised"
        /\ calls.llm = 1
        /\ calls.searches = 0
        /\ calls.fetches = 0
        /\ calls.writes = 0
        /\ contrib = <<>>
        /\ DOMAIN search_url_table.data = {}
        /\ DOMAIN job_detail_table.data = {}
        /\ DOMAIN job_embedding_table.data = {}

\* a run ended on an answer that did not parse
C4_Witness ==
    /\ op = "recommend_jobs_urls"
    /\ pc = "raised"
    /\ llm_response.kind = "unparsable"
    /\ calls.llm = 1

\* C5: the list get_job_urls_by_recommds returns holds no URL twice.
C5_ResolvedUrlsUnique ==
    (op = "get_job_urls_by_recommds" /\ pc = "returned") =>
        \A i, j \in 1..Len(outcome.urls) :
            i # j => outcome.urls[i] # outcome.urls[j]

\* C6: a later resolution with the titles and location of a completed one
\* returns the same list, and each of its search URLs has been searched once.
C6_SecondResolutionFromCache ==
    (/\ op = "get_job_urls_by_recommds"
     /\ pc = "returned"
     /\ args.job_recommends \in DOMAIN resolved
     /\ resolved[args.job_recommends].call < ncalls) =>
        /\ outcome.urls = resolved[args.job_recommends].urls
        /\ \A i \in 1..Len(contrib) : CountOf(searches_of, contrib[i].search_url) = 1

\* C7: get_job_urls_by_recommds never raises; a title whose search failed
\* contributes no URL, and the list returned is the first title's list
\* followed by the second's.
C7_FailedSearchContributesNothing ==
    (op = "get_job_urls_by_recommds") =>
        /\ pc # "raised"
        /\ \A i \in 1..Len(contrib) :
               contrib[i].first_page_failed => contrib[i].urls = <<>>
        /\ pc = "returned" =>
               /\ Len(contrib) = 2
               /\ outcome.urls = contrib[1].urls \o contrib[2].urls

\* the first title's search failed, the second title's URLs were returned
C7_Witness ==
    /\ op = "get_job_urls_by_recommds"
    /\ pc = "returned"
    /\ contrib[1].first_page_failed
    /\ contrib[2].urls # <<>>
    /\ outcome.urls = contrib[2].urls

Stored(file, job_url) == file.exists /\ job_url \in DOMAIN file.data

\* C8: once job_detail_table holds a record for a URL, the record stays as it
\* is, and every get_job_detail of that URL returns it with no fetch and no
\* completion call.
C8_StoredDetailServed ==
    [][\A u \in Urls :
         Stored(job_detail_table, u) =>
            /\ Stored(job_detail_table', u)
            /\ job_detail_table'.data[u] = job_detail_table.data[u]
            /\ (extraction'.n # extraction.n /\ extraction'.job_url = u) =>
                   /\ extraction'.status = "returned"
                   /\ extraction'.detail = job_detail_table.data[u]
                   /\ extraction'.fetches = 0
                   /\ extraction'.llm_calls = 0]_vars

\* a second get_job_detail found the record in the cache
C8_Witness ==
    /\ extraction.n >= 2
    /\ extraction.fetches = 0
    /\ extraction.llm_calls = 0
    /\ Stored(job_detail_table, extraction.job_url)
    /\ extraction.detail = job_detail_table.data[extraction.job_url]

\* C9: a get_job_detail whose fetch failed returns the all-default record and
\* stores it under the URL.
C9_FailedFetchGivesDefault ==
    (extraction.n >= 1 /\ extraction.job_content = None) =>
        /\ extraction.detail = JobDescriptionRecord_default
        /\ Stored(job_detail_table, extraction.job_url)
        /\ job_detail_table.data[extraction.job_url] = JobDescriptionRecord_default

ScalarFields ==
    {"job_title", "company_name", "company_description", "is_remote", "employment_type",
     "experience_years_min", "experience_years_max", "education_requirements"}
DateFields == {"posting_date", "close_date"}
ListFields ==
    {"skills_mandatory", "skills_nice_to_have", "soft_skills", "domain_knowledge",
     "responsibilities", "experience_industries", "risk_flags", "keywords"}

\* every optional scalar at None ('Unknown' for the seniority), every list empty
AllDefault(detail) ==
    /\ DOMAIN detail = ScalarFields \cup DateFields \cup ListFields \cup {"seniority_level"}
    /\ \A f \in ScalarFields : detail[f] = None
    /\ \A f \in DateFields : detail[f].type = "NoneType"
    /\ \A f \in ListFields : detail[f] = <<>>
    /\ detail.seniority_level = "Unknown"

\* C10: when the completion call raises or its answer does not parse,
\* get_job_detail does not raise and returns a record with every field at
\* its default.
C10_ExtractionFailureGivesDefault ==
    (extraction.n >= 1 /\ extraction.kind \in {"error", "unparsable"}) =>
        /\ extraction.status = "returned"
        /\ pc # "raised"
        /\ AllDefault(extraction.detail)

\* an extraction whose completion call raised returned the default record
C10_Witness ==
    /\ op = "get_job_detail"
    /\ pc = "returned"
    /\ extraction.kind = "error"
    /\ extraction.llm_calls = 1
    /\ AllDefault(outcome.detail)

IsBlankText(description) == ~Truthy(description) \/ ~Truthy(strip(description))

\* C11: rerank_jobs entered with a description that has text and an empty
\* job_data returns the empty list, makes no provider call for a job text
\* and leaves the embedding file as it was.
C11_EmptyDetailsNoOp ==
    [][ (/\ pc = "entered"
         /\ pc' # "entered"
         /\ ~IsBlankText(args'.description)
         /\ args'.job_data = <<>>) =>
            /\ pc' = "returned"
            /\ outcome'.ranked = <<>>
            /\ calls'.embeds_job = 0
            /\ job_embedding_table' = job_embedding_table ]_vars

\* rerank_jobs returned [] for an empty job_data
C11_Witness ==
    /\ op = "rerank_jobs"
    /\ pc = "returned"
    /\ ~IsBlankText(args.description)
    /\ args.job_data = <<>>
    /\ outcome.ranked = <<>>
    /\ calls.embeds_job = 0

\* C12: rerank_jobs entered with an empty or blank description raises
\* ValueError, whatever job_data is, with no provider call made and the
\* embedding file as it was.
C12_BlankDescriptionRejectedByRerank ==
    [][ (/\ pc = "entered"
         /\ pc' # "entered"
         /\ IsBlankText(args'.description)) =>
            /\ pc' = "raised"
            /\ outcome'.error = "ValueError"
            /\ calls'.embeds_user = 0
            /\ calls'.embeds_job = 0
            /\ job_embedding_table' = job_embedding_table ]_vars

\* a blank description with an empty job_data made rerank_jobs raise
C12_Witness ==
    /\ op = "rerank_jobs"
    /\ pc = "raised"
    /\ args.description = <<" ">>
    /\ args.job_data = <<>>
    /\ outcome.error = "ValueError"

\* the index of the item of job_data with the given URL
PositionIn(job_data, url) == CHOOSE i \in 1..Len(job_data) : job_data[i].url = url

\* C13: in the list rerank_jobs returns every entry's score is at least the
\* next one's, and entries of equal score stand in the order of job_data.
C13_SortedStable ==
    (op = "rerank_jobs" /\ pc = "returned") =>
        \A i, j \in 1..Len(outcome.ranked) :
            i < j =>
                /\ outcome.ranked[i].similarity.num * outcome.ranked[j].similarity.den
                       >= outcome.ranked[j].similarity.num * outcome.ranked[i].similarity.den
                /\ outcome.ranked[i].similarity = outcome.ranked[j].similarity =>
                       PositionIn(args.job_data, outcome.ranked[i].url)
                           < PositionIn(args.job_data, outcome.ranked[j].url)

\* two jobs with the same score other than 0.0 were returned
C13_Witness ==
    /\ op = "rerank_jobs"
    /\ pc = "returned"
    /\ Len(outcome.ranked) = 2
    /\ outcome.ranked[1].similarity = outcome.ranked[2].similarity
    /\ outcome.ranked[1].similarity.num # 0

\* the entries of ranked that carry the given URL
EntriesOf(ranked, url) == { k \in 1..Len(ranked) : ranked[k].url = url }

C15_TopJobsIsPrefix ==
    (op = "get_top_jobs" /\ pc = "returned" /\ args.top_n >= 1) =>
        /\ Len(outcome.ranked) =
               (IF args.top_n <= Len(reranked) THEN args.top_n ELSE Len(reranked))
        /\ \A k \in 1..Len(outcome.ranked) : outcome.ranked[k] = reranked[k]

\* get_top_jobs cut a list of two to its first entry
C15_Witness ==
    /\ op = "get_top_jobs"
    /\ pc = "returned"
    /\ args.top_n = 1
    /\ Len(reranked) = 2
    /\ outcome.ranked = <<reranked[1]>>

\* C16: a recommend or get_top_jobs call with top_n below 1 ends in a
\* validation error, with no external call made.
C16_TopNOutOfRangeRejected ==
    (/\ op \in {"get_top_jobs", "recommend_jobs_urls", "recommend_jobs"}
     /\ args.top_n < 1
     /\ Finished) =>
        /\ pc = "raised"
        /\ outcome.error = "ValueError"
        /\ calls = NoCalls

\* the faults on which open(path, "w") or the dump fails
WriteFaults == {"write_denied", "write_torn"}

\* no operation on a cache raises: get_job_urls_by_recommd and get_job_detail
\* never do, and rerank_jobs only before its first cache access
C17_NotPropagated ==
    /\ op \in {"get_job_urls_by_recommd", "get_job_detail"} => pc # "raised"
    /\ (op = "rerank_jobs" /\ pc = "raised") => scoring = <<>>

\* a failed read is a miss: the external source is asked, and what it gives
\* is the value of the call
C17_ReadFailureIsMiss ==
    /\ \A i \in 1..Len(contrib) :
         contrib[i].table_fault = "read" =>
             /\ contrib[i].searches = 1
             /\ contrib[i].urls = contrib[i].scraped
    /\ (extraction.n > 0 /\ extraction.table_fault = "read") =>
             /\ extraction.fetches = 1
             /\ extraction.llm_calls = 1
             /\ extraction.detail = extraction.record
    /\ \A i \in 1..Len(scoring) :
         (scoring[i].table_fault = "read" /\ scoring[i].source # "notext") =>
             /\ scoring[i].embed_calls = 1
             /\ scoring[i].answers[1].ok =>
                    /\ scoring[i].source = "provider"
                    /\ scoring[i].embedding = scoring[i].answers[1].embedding

\* a failed write: the value computed from the external source is returned
C17_WriteFailureStillReturns ==
    /\ \A i \in 1..Len(contrib) :
         (contrib[i].table_fault \in WriteFaults /\ contrib[i].searches = 1) =>
             contrib[i].urls = contrib[i].scraped
    /\ (extraction.n > 0 /\ extraction.table_fault \in WriteFaults
          /\ extraction.fetches = 1) =>
             /\ extraction.status = "returned"
             /\ extraction.detail = extraction.record
    /\ \A i \in 1..Len(scoring) :
         (/\ scoring[i].table_fault \in WriteFaults
          /\ scoring[i].source \notin {"notext", "cache"}
          /\ scoring[i].answers[1].ok) =>
             /\ scoring[i].source = "provider"
             /\ scoring[i].embedding \in { scoring[i].answers[k].embedding : k \in 1..2 }

\* C17: a read or write error on one of the three cache files is never
\* propagated by get_job_urls_by_recommd, get_job_detail or rerank_jobs; a
\* failed read is handled as a miss, the value being recomputed from the
\* external source, and after a failed write the call still returns the
\* value it computed.
C17_CacheErrorsNotPropagated ==
    /\ C17_NotPropagated
    /\ C17_ReadFailureIsMiss
    /\ C17_WriteFailureStillReturns

\* both callers went through their save to the end
BothSaved == \A w \in Workers : workers[w].pc = "done" /\ workers[w].saved

\* C18: two get_job_detail calls, or two _get_cached_embedding calls, for
\* different URLs that are not cached run at the same time; once both have
\* saved, the file holds an entry for each of the two URLs.
C18_ConcurrentSavesKeepBothKeys ==
    BothSaved =>
        \A w \in Workers :
            /\ ~read_json_raises(WorkerFile(workers[w].kind))
            /\ workers[w].key \in DOMAIN WorkerFile(workers[w].kind).data

\* what _init_database leaves of one file: an absent file exists afterwards
\* and holds {}, an existing file has the keys it had
KeptByInit(before, after) ==
    /\ after.exists
    /\ ~read_json_raises(after)
    /\ DOMAIN after.data = (IF before.exists THEN DOMAIN before.data ELSE {})

\* C19: a successful construction of the JobRecommender (and with it of the
\* JobReranker) creates each absent table file as {} and keeps the entries of
\* an existing one: every key stored before is found by the lookup of its
\* table afterwards, with the value stored.
C19_ConstructionKeepsStores ==
    [][ (pc = "new" /\ pc' = "idle") =>
            /\ KeptByInit(search_url_table, search_url_table')
            /\ KeptByInit(job_detail_table, job_detail_table')
            /\ KeptByInit(job_embedding_table, job_embedding_table')
            /\ \A search_url \in DOMAIN search_url_table.data :
                 search_url_database(search_url_table', search_url)
                     = search_url_table.data[search_url]
            /\ \A job_url \in DOMAIN job_detail_table.data :
                 search_job_detail_database(job_detail_table', job_url)
                     = job_detail_table.data[job_url]
            /\ \A cache_key \in DOMAIN job_embedding_table.data :
                 LET e == _get_cached_embedding(job_embedding_table', cache_key,
                                                <<NoEmbedding, NoEmbedding>>)
                 IN  /\ e.source = "cache"
                     /\ e.embedding = job_embedding_table.data[cache_key]
      ]_vars

\* the first call of a restarted process is served from the file that the
\* one call of the process before it wrote
C19_Witness ==
    /\ restarts = 1
    /\ ncalls = 2
    /\ pc = "returned"
    /\ \/ op = "get_job_detail" /\ extraction.fetches = 0
       \/ op = "get_job_urls_by_recommd" /\ calls.searches = 0
       \/ op = "rerank_jobs" /\ Len(scoring) = 1 /\ scoring[1].source = "cache"

\* C20: a call of get_job_urls_by_recommd that finds no entry for its search
\* URL stores the list the site gave under that search URL, the empty list
\* too; a call that finds an entry, whatever the list stored, returns that
\* list and makes no search.
C20_StoredListIsHit ==
    [][ (op' = "get_job_urls_by_recommd" /\ ncalls' = ncalls + 1) =>
            LET search_url == contrib'[1].search_url
            IN  /\ (search_url \notin DOMAIN search_url_table.data /\ pc' = "returned") =>
                       /\ search_url \in DOMAIN search_url_table'.data
                       /\ search_url_table'.data[search_url] = outcome'.urls
                /\ search_url \in DOMAIN search_url_table.data =>
                       /\ calls'.searches = 0
                       /\ outcome'.urls = search_url_table.data[search_url]
                       /\ search_url_table' = search_url_table
      ]_vars

\* the items of a list
Range(s) == { s[k] : k \in 1..Len(s) }

\* the number of URLs the titles before the i-th contributed
RECURSIVE UrlsBefore(_)
UrlsBefore(i) == IF i <= 1 THEN 0 ELSE UrlsBefore(i - 1) + Len(contrib[i - 1].urls)

\* C21: in the list get_job_urls_by_recommds returns, the URLs of each title
\* stand together in the order of that title's list, the titles in title
\* order; so every URL of the first title has an occurrence before every
\* occurrence of a URL that only the second title gave.
C21_TitleOrderKept ==
    (op = "get_job_urls_by_recommds" /\ pc = "returned") =>
        /\ Len(outcome.urls) = UrlsBefore(Len(contrib) + 1)
        /\ \A i \in 1..Len(contrib) : \A k \in 1..Len(contrib[i].urls) :
               outcome.urls[UrlsBefore(i) + k] = contrib[i].urls[k]
        /\ \A u \in Range(contrib[1].urls) :
           \A q \in 1..Len(outcome.urls) :
               (/\ outcome.urls[q] \in Range(contrib[2].urls)
                /\ outcome.urls[q] \notin Range(contrib[1].urls)) =>
                   \E p \in 1..(q - 1) : outcome.urls[p] = u

\* both titles gave URLs, the first title two of them, and the second title
\* one that the first did not give
C21_Witness ==
    /\ op = "get_job_urls_by_recommds"
    /\ pc = "returned"
    /\ Len(contrib[1].urls) = 2
    /\ contrib[1].urls[1] # contrib[1].urls[2]
    /\ contrib[2].urls # <<>>
    /\ contrib[2].urls # contrib[1].urls

\* the separator of alternatives in a location
OrSeparator == <<" ", "o", "r", " ">>

\* the test of line 203: ' or ' in location.lower()
IsMultiLocation(loc) == contains(lower(loc), OrSeparator)

\* the part of loc before the first separator, in whatever case it is written
FirstAlternative(loc) == SubSeq(loc, 1, Len(SplitFirst(lower(loc), OrSeparator)))

\* a title or a location as it stands in a search URL
Slug(s) == join(<<"-">>, split(lower(s)))

\* the search URL of a title with the given location slug
QueryOf(job_title, slug) ==
    <<"https://www.seek.com.au/">> \o Slug(job_title) \o <<"-jobs">>
        \o (IF slug = <<>> THEN <<>> ELSE <<"/in-">> \o slug)

\* C22: when the location passes the test ' or ' in location.lower(), the
\* search URL built for each title carries the slug of the first alternative
\* and nothing of the later ones.
C22_FirstAlternativeOnly ==
    (/\ op = "get_job_urls_by_recommds"
     /\ ~location.is_none
     /\ Truthy(strip(location.value))
     /\ IsMultiLocation(location.value)) =>
        \A i \in 1..Len(contrib) :
            contrib[i].search_url
                = QueryOf(args.job_recommends.job_titles[i],
                          Slug(FirstAlternative(location.value)))

\* the orders in which a dict of n items can be iterated
IterationOrders(n) ==
    { p \in [1..n -> 1..n] : \A i, j \in 1..n : i # j => p[i] # p[j] }

\* the scored entries as the loop appends them when job_data is iterated in
\* the order p (the embeddings, and so the scores, being those of this call)
ScoredInOrder(p) == [k \in 1..Len(job_similarities) |-> job_similarities[p[k]]]

\* no two entries have the same score
DistinctScores ==
    \A i, j \in 1..Len(job_similarities) :
        i # j => job_similarities[i].similarity # job_similarities[j].similarity

\* C23 as stated: whatever the iteration order of job_data, rerank_jobs
\* returns the same ordered list.
C23_OrderIndependent ==
    (op = "rerank_jobs" /\ pc = "returned") =>
        \A p \in IterationOrders(Len(job_similarities)) :
            SortBySimilarity(ScoredInOrder(p)) = outcome.ranked

\* C23, amended: whatever the iteration order of job_data, rerank_jobs returns
\* the same entries with the same sequence of scores; the ordered list is the
\* same when no two entries have equal scores (entries of equal score stand
\* in iteration order).
C23_OrderIndependentUpToTies ==
    (op = "rerank_jobs" /\ pc = "returned") =>
        \A p \in IterationOrders(Len(job_similarities)) :
            LET other == SortBySimilarity(ScoredInOrder(p))
            IN  /\ Len(other) = Len(outcome.ranked)
                /\ Range(other) = Range(outcome.ranked)
                /\ \A k \in 1..Len(other) :
                       other[k].similarity = outcome.ranked[k].similarity
                /\ DistinctScores => other = outcome.ranked

\* two jobs of different scores were returned, the second of job_data first
C23_Witness ==
    /\ op = "rerank_jobs"
    /\ pc = "returned"
    /\ Len(outcome.ranked) = 2
    /\ outcome.ranked[1].similarity # outcome.ranked[2].similarity
    /\ outcome.ranked[1].url = args.job_data[2].url

\* the item of job_data the loop is at has no text to embed
AtTextlessJob ==
    /\ pc = "scoring"
    /\ job_idx <= Len(args.job_data)
    /\ ~Truthy(_extract_job_text(args.job_data[job_idx].detail))

\* a job without text is appended with 0.0, with no provider call and no
\* write of the embedding file
C24_TextlessScoredZero ==
    [][ (op = "rerank_jobs" /\ AtTextlessJob /\ job_idx' = job_idx + 1) =>
            /\ job_embedding_table' = job_embedding_table
            /\ calls'.embeds_job = calls.embeds_job
            /\ job_similarities'
                   = Append(job_similarities,
                            [url |-> args.job_data[job_idx].url, similarity |-> Zero,
                             detail |-> args.job_data[job_idx].detail])
      ]_vars

\* in the list returned a job without text stands once, with 0.0, and every
\* entry after it has 0.0 too
TextlessAtBottom(ranked) ==
    \A i \in 1..Len(args.job_data) :
        ~Truthy(_extract_job_text(args.job_data[i].detail)) =>
            /\ Cardinality(EntriesOf(ranked, args.job_data[i].url)) = 1
            /\ \A k \in EntriesOf(ranked, args.job_data[i].url) :
                   /\ ranked[k].similarity = Zero
                   /\ \A m \in (k + 1)..Len(ranked) : ranked[m].similarity = Zero

\* C24: a job whose text is empty is scored 0.0 without a provider call and
\* without a write of the embedding file, it stands in the list rerank_jobs
\* returns, and no entry of another score comes after it.
C24_TextlessAtBottom ==
    [][ op = "rerank_jobs" =>
            /\ (AtTextlessJob /\ job_idx' = job_idx + 1) =>
                   /\ job_embedding_table' = job_embedding_table
                   /\ calls'.embeds_job = calls.embeds_job
                   /\ job_similarities'[Len(job_similarities')].similarity = Zero
            /\ (pc = "scoring" /\ pc' = "returned") => TextlessAtBottom(outcome'.ranked)
      ]_vars

\* the item of job_data the loop is at has text to embed
AtTextedJob ==
    /\ pc = "scoring"
    /\ job_idx <= Len(args.job_data)
    /\ Truthy(_extract_job_text(args.job_data[job_idx].detail))

\* the loop is at a job whose URL the embedding file holds: the vector stored
\* is the one scored, the provider is not called, the file is left as it is
C25_HitServesStored ==
    [][ (op = "rerank_jobs" /\ AtTextedJob
           /\ args.job_data[job_idx].url \in DOMAIN job_embedding_table.data
           /\ Len(scoring') = Len(scoring) + 1) =>
            /\ scoring'[Len(scoring')].embedding
                   = job_embedding_table.data[args.job_data[job_idx].url]
            /\ calls'.embeds_job = calls.embeds_job
            /\ job_embedding_table' = job_embedding_table
      ]_vars

\* C25: for a job with text the embedding cache is keyed by the URL alone: a
\* URL the cache holds is scored with the stored vector and without a
\* provider call; for a URL it does not hold the provider is called and the
\* vector it returned is stored under the URL.
C25_KeyedByUrlAlone ==
    [][ (op = "rerank_jobs" /\ AtTextedJob /\ Len(scoring') = Len(scoring) + 1) =>
            LET job_url == args.job_data[job_idx].url
                scored == scoring'[Len(scoring')]
            IN  IF job_url \in DOMAIN job_embedding_table.data
                THEN /\ scored.embedding = job_embedding_table.data[job_url]
                     /\ calls'.embeds_job = calls.embeds_job
                     /\ job_embedding_table' = job_embedding_table
                ELSE /\ calls'.embeds_job > calls.embeds_job
                     /\ scored.embedding # <<>> =>
                            /\ job_url \in DOMAIN job_embedding_table'.data
                            /\ job_embedding_table'.data[job_url] = scored.embedding
      ]_vars

\* rerank_jobs is past its line 181 with a description that has text and a
\* job_data that has items
DescriptionEmbedded ==
    /\ op = "rerank_jobs"
    /\ pc \in {"scoring", "returned", "raised"}
    /\ Truthy(strip(args.description))
    /\ Truthy(args.job_data)

\* C26: a call of rerank_jobs with a description that has text and a job_data
\* that has items asks the provider for the description's embedding exactly
\* once, whatever earlier calls embedded and whatever the embedding file
\* holds, and the step leaves the embedding file as it is.
C26_DescriptionEmbeddedOnce ==
    [][ /\ (pc = "entered" /\ DescriptionEmbedded') =>
                /\ calls'.embeds_user = 1
                /\ job_embedding_table' = job_embedding_table
                /\ pc' = "scoring" => user_embedding' \in Embeddings
        /\ (DescriptionEmbedded /\ DescriptionEmbedded') =>
                calls'.embeds_user = 1
      ]_vars

\* a second call of rerank_jobs is scoring; the embedding file holds a vector
\* the first call stored, so the first call embedded the same description
C26_Witness ==
    /\ DescriptionEmbedded
    /\ pc = "scoring"
    /\ ncalls = 2
    /\ calls.embeds_user = 1
    /\ DOMAIN job_embedding_table.data # {}

\* _calculate_cosine_similarity was called with two vectors of one length,
\* one of them of zero norm
ZeroNormCall ==
    /\ op = "_calculate_cosine_similarity"
    /\ Len(user_embedding) = Len(scoring[1].embedding)
    /\ (Norm(user_embedding) = 0 \/ Norm(scoring[1].embedding) = 0)

\* C27: the cosine similarity of two vectors of one length is exactly 0.0
\* when either of them has zero norm, whatever the other is, and the call
\* returns without dividing by zero.
C27_ZeroNormGivesZero ==
    (op = "_calculate_cosine_similarity" /\ ZeroNormCall) =>
        /\ pc = "returned"
        /\ job_similarities[1].similarity = Zero
        /\ job_similarities[1].similarity.den # 0

\* a vector of MaxDim components that is not zero, against the zero vector
C27_Witness ==
    /\ ZeroNormCall
    /\ Norm(user_embedding) # 0
    /\ Len(user_embedding) = MaxDim
    /\ job_similarities[1].similarity = Zero

\* C28: two get_job_detail calls, or two _get_cached_embedding calls, for the
\* same key that is not cached run at the same time; once both have computed
\* and saved, the file holds for the key one of the two values computed, and
\* no entry for another key has come or gone.
C28_SameKeyLastWriteWins ==
    BothSaved =>
        \A w \in Workers :
            LET file == WorkerFile(workers[w].kind)
                key == workers[w].key
            IN  /\ ~read_json_raises(file)
                /\ DOMAIN file.data = {key}
                /\ \E v \in Workers : file.data[key] = workers[v].table[key]

\* the page a search with the given cap stops at: the first one that fails,
\* shows no job links or has no next page, and the cap-th when there is none
LastPageOf(pages, cap) ==
    IF \E i \in 1..cap : StopsAt(pages[i])
    THEN CHOOSE i \in 1..cap : StopsAt(pages[i]) /\ \A j \in 1..(i - 1) : ~StopsAt(pages[j])
    ELSE cap

\* the job links of the pages 1..n that were served, in page order
RECURSIVE LinksThrough(_, _)
LinksThrough(pages, n) ==
    IF n = 0 THEN <<>>
    ELSE LinksThrough(pages, n - 1) \o (IF pages[n].ok THEN pages[n].links ELSE <<>>)

\* C29: get_job_urls_by_recommd searches the site with a page cap of 2 when
\* the cache gives no list; a search with page cap P returns after at most P
\* page requests: it stops at the first page that fails, shows no job links
\* or has no next page, and returns the links of the pages it was served up
\* to there, in page order.
C29_PageCapKept ==
    /\ op = "get_job_urls" =>
            LET cap == contrib[1].max_pages
                pages == contrib[1].pages
            IN  /\ pc = "scraped"
                /\ calls.page_requests <= cap
                /\ calls.page_requests = LastPageOf(pages, cap)
                /\ outcome.status = "returned"
                /\ outcome.urls = LinksThrough(pages, LastPageOf(pages, cap))
    /\ (op = "get_job_urls_by_recommd" /\ pc \in {"returned", "raised"}) =>
            IF contrib[1].searches = 0 THEN calls.page_requests = 0
            ELSE calls.page_requests \in 1..max_pages

\* a search with cap 2 of a site whose first three pages all show a job and a
\* next page: two pages are requested, the third page's job is not returned
C29_Witness ==
    /\ op = "get_job_urls"
    /\ contrib[1].max_pages = 2
    /\ \A i \in 1..3 : ~StopsAt(contrib[1].pages[i])
    /\ calls.page_requests = 2
    /\ Len(outcome.urls) = 2

\* get_job_urls_by_recommd found no list in the cache and the site had a
\* second page: the search asked for both pages and no more
C29_ResolverWitness ==
    /\ op = "get_job_urls_by_recommd"
    /\ pc = "returned"
    /\ contrib[1].searches = 1
    /\ calls.page_requests = max_pages

\* C30: in one call of rerank_jobs the provider is asked at most once for
\* each job of job_data, and not at all for a job whose URL the embedding
\* file holds, also when the provider call or the read or write of the
\* embedding file fails for that job.
C30_OneProviderCallPerJob ==
    op = "rerank_jobs" =>
        \A i \in 1..Len(scoring) :
            /\ scoring[i].embed_calls <= 1
            /\ scoring[i].source = "cache" => scoring[i].embed_calls = 0

\* the part of C30 that holds: no provider call for a URL the file holds,
\* and one when the file cannot be read
C30_NoCallOnHit ==
    op = "rerank_jobs" =>
        \A i \in 1..Len(scoring) :
            /\ scoring[i].source = "cache" => scoring[i].embed_calls = 0
            /\ scoring[i].table_fault = "read" => scoring[i].embed_calls <= 1
            /\ scoring[i].embed_calls <= 2

====
